---- MODULE Spec2Model ----
(***************************************************************************)
(* Model of the multi-agent debate backend (backend/graph_converter.py).   *)
(*                                                                         *)
(* Specifications of this module:                                          *)
(*   SpecMaps   build_neighbor_maps, one step per edge of the edge list    *)
(*   SpecParse  parse_summary_json applied to bounded reply texts          *)
(*   SpecPrompt build_system_prompt applied to bounded arguments           *)
(*   Spec       the async generator run_debate, one step per suspension    *)
(*              point (backend call, yield, close() of a client)           *)
(*   SpecTopology   SpecMaps and Spec side by side                         *)
(*   SpecEndpoint   websocket_endpoint (backend/main.py) driving the       *)
(*              generator; FairSpecEndpoint adds its fairness             *)
(*                                                                         *)
(* Python values are represented as follows.                               *)
(*   str            a TLA+ string, except reply texts (see Tokens below)   *)
(*   None / missing the string Absent; where the code tells a JSON null    *)
(*                  from a missing key (the direction of an edge) the      *)
(*                  null is the string None and only the missing key is    *)
(*                  Absent                                                 *)
(*   list           a sequence                                             *)
(*   dict           a function whose DOMAIN is the key set; where the      *)
(*                  insertion order is read (labels) a sequence of pairs   *)
(***************************************************************************)
EXTENDS Integers, Sequences, FiniteSets, TLC

\* ---------------------------------------------------------------------
\* Bounds of the model
\* ---------------------------------------------------------------------
MaxNodes == 2          \* longest node list of a debate
MaxRounds == 2         \* largest configured round count of a debate
MaxEdges == 3          \* longest edge list passed to build_neighbor_maps
MaxMapNodes == 2       \* longest node list passed to build_neighbor_maps
MaxNeighbors == 3      \* longest outgoing list given to build_system_prompt
MaxMembers == 2        \* most members of a "comments" object in a reply

\* int(config.get("rounds", 3)): the round count when the key is absent.
DefaultRounds == 3

\* dict.get(key) of a missing key, and a missing JSON member.
Absent == "<absent>"

\* A JSON null (Python None) held by a key that is present.
None == "<none>"

\* Python truthiness of an id / string: None and "" are falsy.
Falsy(s) == s = Absent \/ s = ""

Max(a, b) == IF a >= b THEN a ELSE b

Range(s) == {s[i] : i \in 1..Len(s)}

\* `x in list`
InList(x, s) == \E i \in 1..Len(s) : s[i] = x

NoDuplicates(s) == \A i, j \in 1..Len(s) : s[i] = s[j] => i = j

\* ---------------------------------------------------------------------
\* Nodes
\* ---------------------------------------------------------------------
\* A node of the configuration: {"id", "label", "systemPrompt"}.
Node(id, label, systemPrompt) ==
    [id |-> id, label |-> label, systemPrompt |-> systemPrompt]

\* {node["id"] for node in nodes}
NodeIdSet(ns) == {ns[i].id : i \in 1..Len(ns)}

\* ---------------------------------------------------------------------
\* build_neighbor_maps (graph_converter.py 183-209)
\* ---------------------------------------------------------------------
\* An edge of the configuration; a key that is not present holds Absent.
Edge(from, to, direction) == [from |-> from, to |-> to, direction |-> direction]

\* outgoing = {node["id"]: [] ...}; incoming = {node["id"]: [] ...}
EmptyMaps(ns) ==
    [outgoing |-> [id \in NodeIdSet(ns) |-> <<>>],
     incoming |-> [id \in NodeIdSet(ns) |-> <<>>]]

\* Mutant of add_edge: appends without the membership tests of lines 190, 192.
add_edge_nodedup(maps, sender, receiver) ==
    IF sender \notin DOMAIN maps.outgoing \/ receiver \notin DOMAIN maps.outgoing
    THEN maps
    ELSE [outgoing |-> [maps.outgoing EXCEPT ![sender] = Append(@, receiver)],
          incoming |-> [maps.incoming EXCEPT ![receiver] = Append(@, sender)]]

\* Mutant of add_edge: records the edge in outgoing only (line 193 dropped).
add_edge_outgoing_only(maps, sender, receiver) ==
    IF sender \notin DOMAIN maps.outgoing \/ receiver \notin DOMAIN maps.outgoing
    THEN maps
    ELSE [outgoing |-> IF ~InList(receiver, maps.outgoing[sender])
                       THEN [maps.outgoing EXCEPT ![sender] = Append(@, receiver)]
                       ELSE maps.outgoing,
          incoming |-> maps.incoming]

\* add_edge(sender, receiver), acting on the two closed-over dicts.
add_edge(maps, sender, receiver) ==
    IF sender \notin DOMAIN maps.outgoing \/ receiver \notin DOMAIN maps.outgoing
    THEN maps
    ELSE LET out1 == IF ~InList(receiver, maps.outgoing[sender])
                     THEN [maps.outgoing EXCEPT ![sender] = Append(@, receiver)]
                     ELSE maps.outgoing
             in1  == IF ~InList(sender, maps.incoming[receiver])
                     THEN [maps.incoming EXCEPT ![receiver] = Append(@, sender)]
                     ELSE maps.incoming
         IN [outgoing |-> out1, incoming |-> in1]

\* edge.get("direction", "bidirectional"): the default stands in for a
\* missing key only; a direction of None is returned as it is.
EdgeDirection(edge) ==
    IF edge.direction = Absent THEN "bidirectional" ELSE edge.direction

\* Mutant of process_edge: a bidirectional edge is entered one way only.
process_edge_oneway(maps, edge) ==
    LET direction == EdgeDirection(edge)
    IN IF Falsy(edge.from) \/ Falsy(edge.to) THEN maps
       ELSE IF direction = "a_to_b" THEN add_edge(maps, edge.from, edge.to)
       ELSE IF direction = "b_to_a" THEN add_edge(maps, edge.to, edge.from)
       ELSE IF direction = "bidirectional" THEN add_edge(maps, edge.from, edge.to)
       ELSE maps

\* One iteration of `for edge in edges` (lines 195-207).
process_edge(maps, edge) ==
    LET direction == EdgeDirection(edge)
    IN IF Falsy(edge.from) \/ Falsy(edge.to) THEN maps
       ELSE IF direction = "a_to_b" THEN add_edge(maps, edge.from, edge.to)
       ELSE IF direction = "b_to_a" THEN add_edge(maps, edge.to, edge.from)
       ELSE IF direction = "bidirectional"
            THEN add_edge(add_edge(maps, edge.from, edge.to), edge.to, edge.from)
       ELSE maps

RECURSIVE FoldEdges(_, _, _)
FoldEdges(maps, es, i) ==
    IF i > Len(es) THEN maps ELSE FoldEdges(process_edge(maps, es[i]), es, i + 1)

\* build_neighbor_maps(nodes, edges) -> (outgoing, incoming)
build_neighbor_maps(ns, es) == FoldEdges(EmptyMaps(ns), es, 1)

\* ---------------------------------------------------------------------
\* Reply texts
\* ---------------------------------------------------------------------
\* A text is a sequence of tokens; the text it stands for is the
\* concatenation of the tokens' renderings:
\*   word    v itself: a run of characters that begins and ends with a
\*           non-blank character and holds no brace, no double quote, no
\*           marker and no JSON literal
\*   ws      one whitespace character, v = " " or v = "\n"
\*   marker  the text SUMMARY_JSON: in the letter case given by v
\*   punct   one of the characters { } : ,
\*   str     a JSON string literal: v between double quotes (v holds no
\*           brace, no quote, no backslash)
\*   num     a JSON number, v its digits
Tok(t, v) == [t |-> t, v |-> v]

SP == Tok("ws", " ")
NL == Tok("ws", "\n")
MARKER == Tok("marker", "SUMMARY_JSON:")
MarkerLower == Tok("marker", "summary_json:")
LBRACE == Tok("punct", "{")
RBRACE == Tok("punct", "}")
COLON == Tok("punct", ":")
COMMA == Tok("punct", ",")
Str(v) == Tok("str", v)
Num(v) == Tok("num", v)
Word(v) == Tok("word", v)

IsWs(tok) == tok.t = "ws"

\* str.strip() of a text: leading and trailing whitespace removed.
RECURSIVE LStrip(_)
LStrip(text) ==
    IF text # <<>> /\ IsWs(Head(text)) THEN LStrip(Tail(text)) ELSE text

RECURSIVE RStrip(_)
RStrip(text) ==
    IF text # <<>> /\ IsWs(text[Len(text)])
    THEN RStrip(SubSeq(text, 1, Len(text) - 1))
    ELSE text

Strip(text) == RStrip(LStrip(text))

\* str.strip() of the atomic strings of the model (JSON string values and
\* member names): the ones written with blank padding lose it.
StripStr(s) ==
    CASE s = " B " -> "B"
      [] s = " b " -> "b"
      [] s = " ok " -> "ok"
      [] s = " " -> ""
      [] OTHER -> s

\* str.lower() of the atomic strings of the model.
Lower(s) ==
    CASE s = "A" -> "a"
      [] s = "B" -> "b"
      [] s = "C" -> "c"
      [] s = " B " -> " b "
      [] s = "Zed" -> "zed"
      [] OTHER -> s

\* ---------------------------------------------------------------------
\* re.search(r'(?i)\n*SUMMARY_JSON:\s*\n*', text)   (line 118)
\* ---------------------------------------------------------------------
\* Index of the first marker token, 0 when there is none.
FirstMarker(text) ==
    IF \E i \in 1..Len(text) : text[i].t = "marker"
    THEN CHOOSE i \in 1..Len(text) :
            /\ text[i].t = "marker"
            /\ \A j \in 1..(i - 1) : text[j].t # "marker"
    ELSE 0

\* match.start(): the leftmost match begins with the run of newlines that
\* directly precedes the first marker.
RECURSIVE MatchStart(_, _)
MatchStart(text, i) ==
    IF i > 1 /\ text[i - 1] = NL THEN MatchStart(text, i - 1) ELSE i

\* match.end(): \s* takes every whitespace character after the marker.
\* The value is the index of the first token after the match.
RECURSIVE MatchEnd(_, _)
MatchEnd(text, i) ==
    IF i <= Len(text) /\ IsWs(text[i]) THEN MatchEnd(text, i + 1) ELSE i

\* ---------------------------------------------------------------------
\* json.loads on a token sequence
\* ---------------------------------------------------------------------
\* JSON values: k is "str", "num" or "obj"; an object keeps its members
\* as written, in order, as records [key, val].
JStr(v) == [k |-> "str", v |-> v, items |-> <<>>]
JNum(v) == [k |-> "num", v |-> v, items |-> <<>>]
JObj(items) == [k |-> "obj", v |-> "", items |-> items]
Member(key, val) == [key |-> key, val |-> val]

ParseFail == [ok |-> FALSE, val |-> JStr(""), next |-> 0]

IsPunct(toks, i, c) == i <= Len(toks) /\ toks[i] = Tok("punct", c)

RECURSIVE ParseValue(_, _)
RECURSIVE ParseMembers(_, _, _)

\* members := string ":" value ( "," members | "}" ), starting at token i
ParseMembers(toks, i, acc) ==
    IF ~(i + 1 <= Len(toks) /\ toks[i].t = "str" /\ IsPunct(toks, i + 1, ":"))
    THEN ParseFail
    ELSE LET r == ParseValue(toks, i + 2)
         IN IF ~r.ok THEN ParseFail
            ELSE LET acc2 == Append(acc, Member(toks[i].v, r.val))
                 IN IF IsPunct(toks, r.next, ",")
                    THEN ParseMembers(toks, r.next + 1, acc2)
                    ELSE IF IsPunct(toks, r.next, "}")
                    THEN [ok |-> TRUE, val |-> JObj(acc2), next |-> r.next + 1]
                    ELSE ParseFail

\* value := string | number | "{" "}" | "{" members
ParseValue(toks, i) ==
    IF i > Len(toks) THEN ParseFail
    ELSE IF toks[i].t = "str" THEN [ok |-> TRUE, val |-> JStr(toks[i].v), next |-> i + 1]
    ELSE IF toks[i].t = "num" THEN [ok |-> TRUE, val |-> JNum(toks[i].v), next |-> i + 1]
    ELSE IF IsPunct(toks, i, "{")
         THEN IF IsPunct(toks, i + 1, "}")
              THEN [ok |-> TRUE, val |-> JObj(<<>>), next |-> i + 2]
              ELSE ParseMembers(toks, i + 1, <<>>)
    ELSE ParseFail

NotWs(tok) == ~IsWs(tok)

\* json.loads(json_str): whitespace between tokens is skipped, the whole
\* string must be one value. ok = FALSE stands for json.JSONDecodeError.
json_loads(toks) ==
    LET ts == SelectSeq(toks, NotWs)
        r == ParseValue(ts, 1)
    IN IF r.ok /\ r.next = Len(ts) + 1 THEN r ELSE ParseFail

\* The dict json.loads builds from an object: `key in data`
DictHas(items, key) == \E i \in 1..Len(items) : items[i].key = key

\* data[key]: of members with the same name the last one wins.
DictGet(items, key) ==
    LET last == CHOOSE i \in 1..Len(items) :
                    /\ items[i].key = key
                    /\ \A j \in (i + 1)..Len(items) : items[j].key # key
    IN items[last].val

\* data.items(): each name once, at the place of its first occurrence,
\* with the value of its last occurrence.
RECURSIVE DictItemsFrom(_, _)
DictItemsFrom(items, i) ==
    IF i > Len(items) THEN <<>>
    ELSE IF \E j \in 1..(i - 1) : items[j].key = items[i].key
         THEN DictItemsFrom(items, i + 1)
         ELSE <<Member(items[i].key, DictGet(items, items[i].key))>>
              \o DictItemsFrom(items, i + 1)

DictItems(items) == DictItemsFrom(items, 1)

\* str(value).strip() of a JSON value. The repr of a dict is kept opaque.
PyStrStrip(val) ==
    IF val.k = "str" THEN StripStr(val.v)
    ELSE IF val.k = "num" THEN val.v
    ELSE IF val.items = <<>> THEN "{}" ELSE "{...}"

\* ---------------------------------------------------------------------
\* parse_summary_json (graph_converter.py 99-180)
\* ---------------------------------------------------------------------
\* The labels dict {node id: label}, in insertion order.
LabelPair(id, label) == [id |-> id, label |-> label]

\* labels.get(nid, nid)
LabelGet(labels, nid) ==
    IF \E i \in 1..Len(labels) : labels[i].id = nid
    THEN labels[CHOOSE i \in 1..Len(labels) : labels[i].id = nid].label
    ELSE nid

\* label_to_id = {label.lower(): nid for nid, label in labels.items()}
\* (line 128): of labels that are equal in lower case the last one wins.
label_to_id(labels) ==
    [name \in {Lower(labels[i].label) : i \in 1..Len(labels)} |->
        labels[CHOOSE i \in 1..Len(labels) :
                  /\ Lower(labels[i].label) = name
                  /\ \A j \in (i + 1)..Len(labels) : Lower(labels[j].label) # name].id]

\* d[k] = v on a dict
Put(d, k, v) == [x \in (DOMAIN d) \cup {k} |-> IF x = k THEN v ELSE d[x]]

EmptyDict == [x \in {} |-> ""]

\* {nid: "" for nid in expected_neighbors}
EmptyComments(expected_neighbors) == [nid \in Range(expected_neighbors) |-> ""]

\* What parse_summary_json returns, or raised = TRUE when an exception
\* leaves it (then the other fields mean nothing).
ParseResult(main_text, position, comments) ==
    [raised |-> FALSE, main_text |-> main_text, position |-> position,
     comments |-> comments]

ParseRaised ==
    [raised |-> TRUE, main_text |-> <<>>, position |-> "", comments |-> EmptyDict]

\* Mutant of Fallback: the text is returned trimmed.
FallbackStripped(text, expected_neighbors) ==
    ParseResult(Strip(text), "", EmptyComments(expected_neighbors))

\* The three early returns (lines 122, 137, 152) and the except clause
\* (line 173): the full text, no position, an empty comment per neighbor.
Fallback(text, expected_neighbors) ==
    ParseResult(text, "", EmptyComments(expected_neighbors))

\* json_section.find('{'): index of the first opening brace, 0 for -1.
FindBrace(json_section) ==
    IF \E i \in 1..Len(json_section) : json_section[i] = LBRACE
    THEN CHOOSE i \in 1..Len(json_section) :
            /\ json_section[i] = LBRACE
            /\ \A j \in 1..(i - 1) : json_section[j] # LBRACE
    ELSE 0

\* Lines 140-149: index of the brace that closes the one at json_start,
\* 0 when brace_count never returns to zero (json_end == -1).
RECURSIVE MatchBrace(_, _, _)
MatchBrace(json_section, i, brace_count) ==
    IF i > Len(json_section) THEN 0
    ELSE IF json_section[i] = LBRACE
         THEN MatchBrace(json_section, i + 1, brace_count + 1)
    ELSE IF json_section[i] = RBRACE
         THEN IF brace_count - 1 = 0 THEN i
              ELSE MatchBrace(json_section, i + 1, brace_count - 1)
    ELSE MatchBrace(json_section, i + 1, brace_count)

\* Lines 164-168: one iteration of `for neighbor_name, comment_text in
\* comments_dict.items()`.
RecordComment(comments, member, expected_neighbors, labels) ==
    LET name_lower == Lower(StripStr(member.key))
        l2i == label_to_id(labels)
    IN IF name_lower \in DOMAIN l2i /\ InList(l2i[name_lower], expected_neighbors)
       THEN Put(comments, l2i[name_lower], PyStrStrip(member.val))
       ELSE comments

RECURSIVE RecordComments(_, _, _, _, _)
RecordComments(comments, members, i, expected_neighbors, labels) ==
    IF i > Len(members) THEN comments
    ELSE RecordComments(
            RecordComment(comments, members[i], expected_neighbors, labels),
            members, i + 1, expected_neighbors, labels)

\* Lines 176-178: every expected neighbor without a comment gets "".
FillMissing(comments, expected_neighbors) ==
    [nid \in (DOMAIN comments) \cup Range(expected_neighbors) |->
        IF nid \in DOMAIN comments THEN comments[nid] ELSE ""]

\* Lines 157-180, given the dict `data` that json.loads returned.
\* comments_dict.items() raises AttributeError when the value of
\* "comments" is not an object; the except clause of line 170 catches
\* json.JSONDecodeError and ValueError only, so it leaves the function.
ExtractEnvelope(main_text, data, expected_neighbors, labels, round_num) ==
    LET position == IF DictHas(data.items, "position")
                    THEN PyStrStrip(DictGet(data.items, "position"))
                    ELSE StripStr("")
    IN IF round_num > 1 /\ DictHas(data.items, "comments")
       THEN LET comments_dict == DictGet(data.items, "comments")
            IN IF comments_dict.k # "obj" THEN ParseRaised
               ELSE ParseResult(main_text, position,
                        FillMissing(
                            RecordComments(EmptyDict, DictItems(comments_dict.items),
                                           1, expected_neighbors, labels),
                            expected_neighbors))
       ELSE ParseResult(main_text, position, FillMissing(EmptyDict, expected_neighbors))

parse_summary_json(text, expected_neighbors, labels, round_num) ==
    LET m == FirstMarker(text)
    IN IF m = 0 THEN Fallback(text, expected_neighbors)
       ELSE
       LET main_text == Strip(SubSeq(text, 1, MatchStart(text, m) - 1))
           json_section == Strip(SubSeq(text, MatchEnd(text, m + 1), Len(text)))
           json_start == FindBrace(json_section)
       IN IF json_start = 0 THEN Fallback(text, expected_neighbors)
          ELSE
          LET json_end == MatchBrace(json_section, json_start, 0)
          IN IF json_end = 0 THEN Fallback(text, expected_neighbors)
             ELSE
             LET parsed == json_loads(SubSeq(json_section, json_start, json_end))
             IN IF ~parsed.ok THEN Fallback(text, expected_neighbors)
                ELSE ExtractEnvelope(main_text, parsed.val, expected_neighbors,
                                     labels, round_num)

\* ---------------------------------------------------------------------
\* State
\* ---------------------------------------------------------------------
VARIABLES
    \* build_neighbor_maps, stepped edge by edge (SpecMaps)
    bn_nodes,      \* the `nodes` argument
    bn_outgoing,   \* the dict `outgoing`
    bn_incoming,   \* the dict `incoming`
    bn_count,      \* number of edges of the edge list processed so far
    bn_edge,       \* the edge processed last
    \* parse_summary_json (SpecParse)
    ps_args,       \* [text, expected_neighbors, labels, round_num]
    ps_result,     \* what the call returned or that it raised
    ps_pc,         \* "call" before the call, "done" after it
    \* run_debate (Spec)
    config,        \* the configuration: [nodes, edges, rounds]
    pc,            \* where the generator is suspended
    round_num,     \* loop variable of line 316
    node_idx,      \* position of the loop of line 318 in `nodes`
    msg_idx,       \* position of the loop of line 378 in `recipients`
    model_clients, \* node id -> "open" / "closed"
    aggregator_client, \* "none" / "open" / "closed"
    outgoing,      \* result of build_neighbor_maps
    incoming,
    histories,     \* node id -> list of messages
    responses_by_round, \* list (by round) of lists of [id, text]
    turn,          \* locals of the current turn that live across its yields
    aggregator_messages, \* the messages given to the aggregator client
    error,         \* the exception in flight: "none", "backend", "parse", "exit"
    exc_class,     \* its class, as the except clauses tell them apart
    backend_calls, \* the create() calls in call order: [callee, outcome]
    events,        \* everything the generator has yielded, in order
    \* build_system_prompt (SpecPrompt)
    bp_args,       \* [custom_prompt, outgoing_neighbors, labels, round_num]
    bp_result,     \* the prompt returned
    bp_pc,         \* "call" before the call, "done" after it
    \* websocket_endpoint (SpecEndpoint)
    ws_request,    \* what receive_text delivers: [json_ok, config]
    ws_pc,         \* where the endpoint is suspended
    ws_open,       \* the client is still connected
    ws_taken,      \* number of events the `async for` has received
    ws_out,        \* the record the pending send_json call was given
    ws_sent        \* the records of the send_json calls that returned

mapVars == <<bn_nodes, bn_outgoing, bn_incoming, bn_count, bn_edge>>
parseVars == <<ps_args, ps_result, ps_pc>>
debateVars == <<config, pc, round_num, node_idx, msg_idx, model_clients,
                aggregator_client, outgoing, incoming, histories,
                responses_by_round, turn, aggregator_messages, error, exc_class,
                backend_calls, events>>
promptVars == <<bp_args, bp_result, bp_pc>>
wsVars == <<ws_request, ws_pc, ws_open, ws_taken, ws_out, ws_sent>>
vars == <<mapVars, parseVars, debateVars, promptVars, wsVars>>

\* Values the variables of the other specifications rest at.
NoEdge == Edge(Absent, Absent, Absent)
NoTurn == [main_text |-> <<>>, position |-> "", comments |-> EmptyDict,
           recipients |-> <<>>]

MapsIdle ==
    /\ bn_nodes = <<>>
    /\ bn_outgoing = EmptyDict
    /\ bn_incoming = EmptyDict
    /\ bn_count = 0
    /\ bn_edge = NoEdge

ParseIdle ==
    /\ ps_args = [text |-> <<>>, expected_neighbors |-> <<>>, labels |-> <<>>,
                  round_num |-> 1]
    /\ ps_result = Fallback(<<>>, <<>>)
    /\ ps_pc = "idle"

PromptIdle ==
    /\ bp_args = [custom_prompt |-> "", outgoing_neighbors |-> <<>>,
                  labels |-> <<>>, round_num |-> 1]
    /\ bp_result = <<>>
    /\ bp_pc = "idle"

\* No event, no record on the wire, no request.
NoEvent == [type |-> "none", from |-> Absent, to |-> Absent, text |-> <<>>,
            summary |-> Absent, position |-> Absent, round |-> 0]
NoRecord == [type |-> "none", error |-> Absent, data |-> NoEvent]
NoRequest ==
    [json_ok |-> FALSE,
     config |-> [has_nodes |-> FALSE, nodes |-> <<>>, edges |-> <<>>,
                 rounds |-> [present |-> FALSE, value |-> 0], apiKey |-> Absent]]

EndpointIdle ==
    /\ ws_request = NoRequest
    /\ ws_pc = "idle"
    /\ ws_open = FALSE
    /\ ws_taken = 0
    /\ ws_out = NoRecord
    /\ ws_sent = <<>>

DebateIdle ==
    /\ config = [nodes |-> <<>>, edges |-> <<>>,
                 rounds |-> [present |-> FALSE, value |-> 0]]
    /\ pc = "idle"
    /\ round_num = 0
    /\ node_idx = 0
    /\ msg_idx = 0
    /\ model_clients = EmptyDict
    /\ aggregator_client = "none"
    /\ outgoing = EmptyDict
    /\ incoming = EmptyDict
    /\ histories = EmptyDict
    /\ responses_by_round = <<>>
    /\ turn = NoTurn
    /\ aggregator_messages = <<>>
    /\ error = "none"
    /\ exc_class = "none"
    /\ backend_calls = <<>>
    /\ events = <<>>

\* ---------------------------------------------------------------------
\* SpecMaps: build_neighbor_maps on every node list of at most
\* MaxMapNodes ids and every edge list of at most MaxEdges edges
\* ---------------------------------------------------------------------
\* Node ids of the node lists: two ordinary ids and the empty string.
MapNodeIds == {"a", "b", ""}

\* Endpoints an edge may name: the ids above, an id of no node, and a
\* missing "from"/"to" key.
MapEndpoints == {"a", "b", "", "z", Absent}

MapDirections == {"a_to_b", "b_to_a", "bidirectional", "sideways", None, Absent}

MapEdges ==
    {Edge(f, t, d) : f \in MapEndpoints, t \in MapEndpoints, d \in MapDirections}

MapNodeLists ==
    UNION {[1..n -> {Node(id, id, "") : id \in MapNodeIds}] : n \in 0..MaxMapNodes}

InitMaps ==
    /\ bn_nodes \in MapNodeLists
    /\ bn_outgoing = EmptyMaps(bn_nodes).outgoing
    /\ bn_incoming = EmptyMaps(bn_nodes).incoming
    /\ bn_count = 0
    /\ bn_edge = NoEdge
    /\ ParseIdle
    /\ DebateIdle
    /\ PromptIdle
    /\ EndpointIdle

\* The loop of line 195 takes the next edge of the list.
ProcessEdge(edge) ==
    /\ bn_count < MaxEdges
    /\ LET maps == process_edge([outgoing |-> bn_outgoing, incoming |-> bn_incoming],
                                edge)
       IN /\ bn_outgoing' = maps.outgoing
          /\ bn_incoming' = maps.incoming
    /\ bn_count' = bn_count + 1
    /\ bn_edge' = edge
    /\ UNCHANGED <<bn_nodes, parseVars, debateVars, promptVars, wsVars>>

NextMaps == \E edge \in MapEdges : ProcessEdge(edge)

SpecMaps == InitMaps /\ [][NextMaps]_vars

\* The edge processed last, when it is one between two nodes of the list.
KnownEdge ==
    /\ bn_count >= 1
    /\ bn_edge.from \in NodeIdSet(bn_nodes)
    /\ bn_edge.to \in NodeIdSet(bn_nodes)

\* C8: the key set of outgoing and of incoming is exactly the set of node
\* ids, and no neighbor list holds an id twice or an id of no node,
\* whatever edges have been processed.
C8_MapsWellFormed ==
    /\ DOMAIN bn_outgoing = NodeIdSet(bn_nodes)
    /\ DOMAIN bn_incoming = NodeIdSet(bn_nodes)
    /\ \A id \in NodeIdSet(bn_nodes) :
          /\ NoDuplicates(bn_outgoing[id])
          /\ NoDuplicates(bn_incoming[id])
          /\ Range(bn_outgoing[id]) \subseteq NodeIdSet(bn_nodes)
          /\ Range(bn_incoming[id]) \subseteq NodeIdSet(bn_nodes)

\* A repeated edge a -> b arrives after a self-loop on a: b was entered
\* before a, so the last edge found it present.
C8_Witness ==
    /\ NodeIdSet(bn_nodes) = {"a", "b"}
    /\ bn_edge = Edge("a", "b", "a_to_b")
    /\ bn_count = MaxEdges
    /\ bn_outgoing["a"] = <<"b", "a">>
    /\ bn_incoming["a"] = <<"a">>

\* C9 as stated: an a_to_b edge (X,Y) between known nodes gives Y in
\* outgoing[X], X in incoming[Y] and X not in outgoing[Y]; b_to_a the
\* mirror image; bidirectional (also when the key is absent) all four.
C9_AsStated ==
    KnownEdge =>
        LET X == bn_edge.from
            Y == bn_edge.to
            d == EdgeDirection(bn_edge)
        IN /\ d = "a_to_b" =>
                /\ InList(Y, bn_outgoing[X])
                /\ InList(X, bn_incoming[Y])
                /\ ~InList(X, bn_outgoing[Y])
           /\ d = "b_to_a" =>
                /\ InList(X, bn_outgoing[Y])
                /\ InList(Y, bn_incoming[X])
                /\ ~InList(Y, bn_outgoing[X])
           /\ d = "bidirectional" =>
                /\ InList(Y, bn_outgoing[X])
                /\ InList(X, bn_incoming[Y])
                /\ InList(X, bn_outgoing[Y])
                /\ InList(Y, bn_incoming[X])

\* C9, amended: an edge between known nodes whose ids are non-empty
\* enters the memberships of its direction (a_to_b: Y in outgoing[X], X in
\* incoming[Y]; b_to_a the mirror image; bidirectional, also when the key
\* is absent, all four); no later edge removes a membership; and a
\* one-way edge between distinct nodes does not itself enter the reverse
\* membership.
C9_Directions ==
    [][ /\ \A x \in DOMAIN bn_outgoing : \A y \in DOMAIN bn_outgoing :
              /\ InList(y, bn_outgoing[x]) => InList(y, bn_outgoing'[x])
              /\ InList(y, bn_incoming[x]) => InList(y, bn_incoming'[x])
        /\ (KnownEdge' /\ ~Falsy(bn_edge'.from) /\ ~Falsy(bn_edge'.to)) =>
              LET X == bn_edge'.from
                  Y == bn_edge'.to
                  d == EdgeDirection(bn_edge')
              IN /\ d = "a_to_b" =>
                      /\ InList(Y, bn_outgoing'[X])
                      /\ InList(X, bn_incoming'[Y])
                      /\ (X # Y /\ ~InList(X, bn_outgoing[Y]))
                            => ~InList(X, bn_outgoing'[Y])
                 /\ d = "b_to_a" =>
                      /\ InList(X, bn_outgoing'[Y])
                      /\ InList(Y, bn_incoming'[X])
                      /\ (X # Y /\ ~InList(Y, bn_outgoing[X]))
                            => ~InList(Y, bn_outgoing'[X])
                 /\ d = "bidirectional" =>
                      /\ InList(Y, bn_outgoing'[X])
                      /\ InList(X, bn_incoming'[Y])
                      /\ InList(X, bn_outgoing'[Y])
                      /\ InList(Y, bn_incoming'[X])
      ]_vars

\* A bidirectional edge by default (no direction key) between a and b,
\* after a one-way edge had entered b -> a only.
C9_Witness ==
    /\ NodeIdSet(bn_nodes) = {"a", "b"}
    /\ bn_count = 2
    /\ bn_edge = Edge("a", "b", Absent)
    /\ bn_outgoing["a"] = <<"b">>
    /\ bn_outgoing["b"] = <<"a">>
    /\ bn_incoming["a"] = <<"b">>
    /\ bn_incoming["b"] = <<"a">>

\* ---------------------------------------------------------------------
\* SpecParse: parse_summary_json on bounded reply texts
\* ---------------------------------------------------------------------
\* The text of a JSON value, members separated by a comma and a blank.
RECURSIVE Render(_)
RECURSIVE RenderMembers(_, _)
RenderMembers(items, i) ==
    IF i > Len(items) THEN <<>>
    ELSE (IF i > 1 THEN <<COMMA, SP>> ELSE <<>>)
         \o <<Str(items[i].key), COLON, SP>> \o Render(items[i].val)
         \o RenderMembers(items, i + 1)

Render(val) ==
    IF val.k = "str" THEN <<Str(val.v)>>
    ELSE IF val.k = "num" THEN <<Num(val.v)>>
    ELSE <<LBRACE>> \o RenderMembers(val.items, 1) \o <<RBRACE>>

\* Members of a "comments" object: a label as written by the model (exact,
\* padded and in another case, or of no node) and a comment that is a
\* string or not.
CommentMembers ==
    {Member(key, val) : key \in {"A", " b ", "Zed"},
                        val \in {JStr(" ok "), JNum("5")}}

CommentObjects ==
    {JObj(ms) : ms \in UNION {[1..n -> CommentMembers] : n \in 0..MaxMembers}}

\* Values of "comments": an object, or a value that is no object.
CommentsValues == CommentObjects \cup {JStr("none"), JNum("5")}

PositionValues == {JStr(" ok "), JObj(<<>>)}

\* The envelope objects: with or without "position", with or without
\* "comments", in either order.
Envelopes ==
    {JObj(<<>>)}
    \cup {JObj(<<Member("position", p)>>) : p \in PositionValues}
    \cup {JObj(<<Member("comments", c)>>) : c \in CommentsValues}
    \cup {JObj(<<Member("position", p), Member("comments", c)>>) :
            p \in PositionValues, c \in CommentsValues}
    \cup {JObj(<<Member("comments", c), Member("position", JStr(" ok "))>>) :
            c \in CommentsValues}

\* What precedes the marker, and the marker with the blanks around it.
TextHeads == {<<>>, <<Word("w"), NL>>, <<SP, Word("w"), SP, Word("x"), NL, NL>>}
TextMarkers == {<<MARKER, NL>>, <<MarkerLower, SP>>, <<MARKER>>}

\* Replies with a well-formed envelope, possibly followed by more text.
WellFormedTexts ==
    {h \o m \o Render(e) \o t :
        h \in TextHeads, m \in TextMarkers, e \in Envelopes,
        t \in {<<>>, <<NL, Word("bye")>>}}

\* Replies without marker, without brace, with an unclosed brace, with
\* braces that match around something that is no JSON, and with a second
\* marker.
DefectiveTexts ==
    {<<>>, <<Word("w")>>, <<Word("w"), SP, LBRACE, Str("position"), COLON, Str("p"), RBRACE>>}
    \cup {h \o m \o t :
            h \in TextHeads, m \in TextMarkers,
            t \in {<<>>,
                   <<Word("w")>>,
                   <<LBRACE>>,
                   <<LBRACE, Str("position"), COLON, LBRACE, RBRACE>>,
                   <<LBRACE, Word("w"), RBRACE>>,
                   <<LBRACE, Str("position"), RBRACE>>,
                   <<LBRACE, Str("position"), COLON, Str("p"), COMMA, RBRACE>>,
                   <<LBRACE, RBRACE, RBRACE>>,
                   <<RBRACE, LBRACE, Str("position"), COLON, Num("5"), RBRACE>>,
                   <<LBRACE, Str("position"), COLON, Str("p"), RBRACE, NL,
                     MARKER, LBRACE, RBRACE>>,
                   <<LBRACE, MARKER, RBRACE>>}}

ParseTexts == WellFormedTexts \cup DefectiveTexts

\* Expected-neighbor lists and label dicts over the ids a, b, c. In the
\* second dict two labels are equal in lower case; in the third the label
\* of c equals that of b in lower case.
ParseExpected == {<<>>, <<"a">>, <<"b">>, <<"a", "b">>, <<"b", "a">>}

ParseLabels ==
    {<<LabelPair("a", "A"), LabelPair("b", "B")>>,
     <<LabelPair("a", "B"), LabelPair("b", "b")>>,
     <<LabelPair("a", "A"), LabelPair("b", "B"), LabelPair("c", "b")>>}

ParseRounds == {1, 2}

InitParse ==
    /\ ps_args \in [text : ParseTexts, expected_neighbors : ParseExpected,
                    labels : ParseLabels, round_num : ParseRounds]
    /\ ps_result = Fallback(<<>>, <<>>)
    /\ ps_pc = "call"
    /\ MapsIdle
    /\ DebateIdle
    /\ PromptIdle
    /\ EndpointIdle

\* The call parse_summary_json(text, expected_neighbors, labels, round_num).
Parse ==
    /\ ps_pc = "call"
    /\ ps_result' = parse_summary_json(ps_args.text, ps_args.expected_neighbors,
                                       ps_args.labels, ps_args.round_num)
    /\ ps_pc' = "done"
    /\ UNCHANGED <<ps_args, mapVars, debateVars, promptVars, wsVars>>

NextParse == Parse

SpecParse == InitParse /\ [][NextParse]_vars

\* C10: parse_summary_json returns without raising and the key set of the
\* returned comments is exactly the set of expected neighbors.
C10_KeysAreExpected ==
    ps_pc = "done" =>
        /\ ~ps_result.raised
        /\ DOMAIN ps_result.comments = Range(ps_args.expected_neighbors)

\* The tiers of a reply text, read off the text itself.
HasMarker(text) == \E i \in 1..Len(text) : text[i].t = "marker"

\* What follows the first marker.
AfterMarker(text) == SubSeq(text, FirstMarker(text) + 1, Len(text))

HasBrace(toks) == \E i \in 1..Len(toks) : toks[i] = LBRACE

\* Opening braces minus closing braces among the tokens i..j.
Depth(toks, i, j) ==
    Cardinality({k \in i..j : toks[k] = LBRACE})
    - Cardinality({k \in i..j : toks[k] = RBRACE})

FirstBrace(toks) == CHOOSE i \in 1..Len(toks) :
    toks[i] = LBRACE /\ \A j \in 1..(i - 1) : toks[j] # LBRACE

\* The first opening brace is closed somewhere.
BraceCloses(toks) ==
    \E j \in FirstBrace(toks)..Len(toks) : Depth(toks, FirstBrace(toks), j) = 0

\* The tokens from the first opening brace to the brace that closes it.
BraceMatched(toks) ==
    SubSeq(toks, FirstBrace(toks),
           CHOOSE j \in FirstBrace(toks)..Len(toks) :
              /\ Depth(toks, FirstBrace(toks), j) = 0
              /\ \A k \in FirstBrace(toks)..(j - 1) : Depth(toks, FirstBrace(toks), k) # 0)

\* All four tiers pass: marker, opening brace, matching close, JSON.
AllTiersPass(text) ==
    /\ HasMarker(text)
    /\ HasBrace(AfterMarker(text))
    /\ BraceCloses(AfterMarker(text))
    /\ json_loads(BraceMatched(AfterMarker(text))).ok

\* C11: when a tier fails (no marker, no opening brace after it, no
\* matching close brace, or no JSON between the braces) the call returns,
\* without raising, the full text unchanged, an empty position and an empty
\* comment per expected neighbor; when all tiers pass and the call returns,
\* main_text is the trimmed text before the first marker and position the
\* trimmed position value, empty when the key is missing.
C11_FallbackTiers ==
    ps_pc = "done" =>
        LET text == ps_args.text
        IN /\ ~AllTiersPass(text) =>
                /\ ~ps_result.raised
                /\ ps_result.main_text = text
                /\ ps_result.position = ""
                /\ ps_result.comments =
                      [nid \in Range(ps_args.expected_neighbors) |-> ""]
           /\ (AllTiersPass(text) /\ ~ps_result.raised) =>
                LET data == json_loads(BraceMatched(AfterMarker(text))).val.items
                IN /\ ps_result.main_text =
                         Strip(SubSeq(text, 1, FirstMarker(text) - 1))
                   /\ ps_result.position =
                         IF DictHas(data, "position")
                         THEN PyStrStrip(DictGet(data, "position"))
                         ELSE ""

\* A reply whose brace after the marker is never closed came back whole,
\* blanks included.
C11_Witness ==
    /\ ps_pc = "done"
    /\ ps_args.text = <<SP, Word("w"), SP, Word("x"), NL, NL, MARKER, NL,
                        LBRACE, Str("position"), COLON, LBRACE, RBRACE>>
    /\ ps_args.expected_neighbors = <<"b", "a">>
    /\ ps_result = [raised |-> FALSE, main_text |-> ps_args.text, position |-> "",
                    comments |-> [nid \in {"a", "b"} |-> ""]]

\* The "comments" members of the reply, when the reply has a well-formed
\* envelope whose "comments" value is an object.
HasCommentsObject(text) ==
    /\ AllTiersPass(text)
    /\ LET data == json_loads(BraceMatched(AfterMarker(text))).val.items
       IN DictHas(data, "comments") /\ DictGet(data, "comments").k = "obj"

CommentEntries(text) ==
    DictItems(DictGet(json_loads(BraceMatched(AfterMarker(text))).val.items,
                      "comments").items)

\* The labels of the ids of `ids` are pairwise distinct in lower case.
DistinctLabels(labels, ids) ==
    \A x, y \in ids :
        Lower(LabelGet(labels, x)) = Lower(LabelGet(labels, y)) => x = y

\* The entries written for neighbor nid: those whose trimmed, lowercased
\* key is the lowercased label of nid.
EntriesFor(entries, labels, nid) ==
    {i \in 1..Len(entries) :
        Lower(StripStr(entries[i].key)) = Lower(LabelGet(labels, nid))}

\* Every expected neighbor has the trimmed comment of the entry written
\* under its label (the last one if there are several), or the empty
\* string when there is none; entries of other keys leave no trace.
CommentsByLabel ==
    /\ ~ps_result.raised
    /\ DOMAIN ps_result.comments = Range(ps_args.expected_neighbors)
    /\ \A nid \in Range(ps_args.expected_neighbors) :
          LET entries == CommentEntries(ps_args.text)
              mine == EntriesFor(entries, ps_args.labels, nid)
          IN ps_result.comments[nid] =
                IF mine = {} THEN ""
                ELSE PyStrStrip(entries[CHOOSE i \in mine : \A j \in mine : j <= i].val)

\* C15: in a round > 1, with a well-formed envelope and the labels of the
\* expected neighbors pairwise distinct in lower case, the comments are
\* those written under the neighbors' labels, whatever labels the other
\* nodes carry.
C15_AsStated ==
    (/\ ps_pc = "done"
     /\ ps_args.round_num > 1
     /\ HasCommentsObject(ps_args.text)
     /\ DistinctLabels(ps_args.labels, Range(ps_args.expected_neighbors)))
    => CommentsByLabel

\* The same with the labels of all nodes pairwise distinct in lower case.
C15_WhenAllLabelsDistinct ==
    (/\ ps_pc = "done"
     /\ ps_args.round_num > 1
     /\ HasCommentsObject(ps_args.text)
     /\ DistinctLabels(ps_args.labels,
                       {ps_args.labels[i].id : i \in 1..Len(ps_args.labels)}))
    => CommentsByLabel

\* ---------------------------------------------------------------------
\* Prompt builders (graph_converter.py 26-88, 212-259)
\* ---------------------------------------------------------------------
\* build_system_prompt: the prompt is kept as its parts. `instructions`
\* tells which instruction block was appended: "position" (round 1, lines
\* 52-65, the SUMMARY_JSON instruction with "position" only), "none"
\* (round > 1 without outgoing neighbor, lines 68-69: `base` alone) or
\* "comments" (lines 75-86, the SUMMARY_JSON instruction with "position"
\* and "comments"). The labels the block is formatted with are kept where
\* they are written: comments_example (line 73, the first two names), the
\* example of line 84 (the first name, and the second or again the first)
\* and neighbor_list (lines 72 and 86, every name).
NoInstructions(base, kind) ==
    [base |-> base, instructions |-> kind, comments_example |-> <<>>,
     example |-> <<>>, neighbor_list |-> <<>>]

\* Mutant of build_system_prompt: the neighbor list of line 86 is cut to
\* the two names of the comments example.
build_system_prompt_two(custom_prompt, outgoing_neighbors, labels, rnd) ==
    LET base == IF custom_prompt # "" THEN custom_prompt
                ELSE "You are a participant in a multi-agent debate."
        neighbor_names == [i \in 1..Len(outgoing_neighbors) |->
                              LabelGet(labels, outgoing_neighbors[i])]
        first_two == SubSeq(neighbor_names, 1, IF Len(neighbor_names) > 2 THEN 2
                                               ELSE Len(neighbor_names))
    IN IF rnd = 1 THEN NoInstructions(base, "position")
       ELSE IF outgoing_neighbors = <<>> THEN NoInstructions(base, "none")
       ELSE [base |-> base, instructions |-> "comments",
             comments_example |-> first_two,
             example |-> <<neighbor_names[1],
                           IF Len(neighbor_names) > 1 THEN neighbor_names[2]
                           ELSE neighbor_names[1]>>,
             neighbor_list |-> first_two]

build_system_prompt(custom_prompt, outgoing_neighbors, labels, rnd) ==
    LET base == IF custom_prompt # "" THEN custom_prompt
                ELSE "You are a participant in a multi-agent debate."
        neighbor_names == [i \in 1..Len(outgoing_neighbors) |->
                              LabelGet(labels, outgoing_neighbors[i])]
    IN IF rnd = 1 THEN NoInstructions(base, "position")
       ELSE IF outgoing_neighbors = <<>> THEN NoInstructions(base, "none")
       ELSE [base |-> base, instructions |-> "comments",
             comments_example |-> SubSeq(neighbor_names, 1,
                                         IF Len(neighbor_names) > 2 THEN 2
                                         ELSE Len(neighbor_names)),
             example |-> <<neighbor_names[1],
                           IF Len(neighbor_names) > 1 THEN neighbor_names[2]
                           ELSE neighbor_names[1]>>,
             neighbor_list |-> neighbor_names]

\* ---------------------------------------------------------------------
\* SpecPrompt: build_system_prompt on bounded arguments
\* ---------------------------------------------------------------------
\* Outgoing-neighbor lists: distinct ids, z being an id without a label.
PromptIds == {"a", "b", "c", "z"}
PromptOutgoing ==
    {ids \in UNION {[1..n -> PromptIds] : n \in 0..MaxNeighbors} : NoDuplicates(ids)}

PromptLabels ==
    {<<LabelPair("a", "A"), LabelPair("b", "B"), LabelPair("c", "C")>>,
     <<LabelPair("a", "B"), LabelPair("b", "b")>>}

PromptCustom == {"", "Be bold."}

InitPrompt ==
    /\ bp_args \in [custom_prompt : PromptCustom, outgoing_neighbors : PromptOutgoing,
                    labels : PromptLabels, round_num : 1..(MaxRounds + 1)]
    /\ bp_result = <<>>
    /\ bp_pc = "call"
    /\ MapsIdle
    /\ ParseIdle
    /\ DebateIdle
    /\ EndpointIdle

\* The call build_system_prompt(custom_prompt, outgoing_neighbors, labels,
\* round_num).
BuildPrompt ==
    /\ bp_pc = "call"
    /\ bp_result' = build_system_prompt(bp_args.custom_prompt, bp_args.outgoing_neighbors,
                                        bp_args.labels, bp_args.round_num)
    /\ bp_pc' = "done"
    /\ UNCHANGED <<bp_args, mapVars, parseVars, debateVars, wsVars>>

NextPrompt == BuildPrompt

SpecPrompt == InitPrompt /\ [][NextPrompt]_vars

\* C14: the round 1 prompt carries the position-only instruction and no
\* comments block (no label is written into it), whatever the outgoing
\* neighbors; a prompt of a later round carries no instruction at all when
\* there is no outgoing neighbor, and otherwise the position-and-comments
\* instruction, in which the label of every outgoing neighbor is written.
C14_RoundAwarePrompt ==
    bp_pc = "done" =>
        /\ bp_args.round_num = 1 =>
              /\ bp_result.instructions = "position"
              /\ bp_result.comments_example = <<>>
              /\ bp_result.example = <<>>
              /\ bp_result.neighbor_list = <<>>
        /\ (bp_args.round_num > 1 /\ bp_args.outgoing_neighbors = <<>>) =>
              bp_result.instructions = "none"
        /\ (bp_args.round_num > 1 /\ bp_args.outgoing_neighbors # <<>>) =>
              /\ bp_result.instructions = "comments"
              /\ \A i \in 1..Len(bp_args.outgoing_neighbors) :
                    LabelGet(bp_args.labels, bp_args.outgoing_neighbors[i])
                        \in Range(bp_result.neighbor_list)

\* The round 2 prompt of a node with three outgoing neighbors, one of them
\* without a label, names all three.
C14_Witness ==
    /\ bp_pc = "done"
    /\ bp_args.round_num = 2
    /\ bp_args.outgoing_neighbors = <<"c", "z", "a">>
    /\ bp_result.instructions = "comments"
    /\ bp_result.neighbor_list = <<"C", "z", "A">>
    /\ bp_result.comments_example = <<"C", "z">>

\* build_initial_prompt(question)
build_initial_prompt ==
    [template |-> "initial", neighbor_responses |-> <<>>]

\* build_followup_prompt(question, neighbor_responses, round_num, max_round)
build_followup_prompt(neighbor_responses) ==
    IF neighbor_responses # <<>>
    THEN [template |-> "solutions", neighbor_responses |-> neighbor_responses]
    ELSE [template |-> "no_solutions", neighbor_responses |-> <<>>]

\* A dict {node_id: main_text} of responses_by_round, in insertion order.
RoundHas(round_dict, id) == \E i \in 1..Len(round_dict) : round_dict[i].id = id

\* prev_round.get(neighbor_id); a missing entry (None) reads as the empty
\* text, which line 342 treats alike.
RoundGet(round_dict, id) ==
    IF RoundHas(round_dict, id)
    THEN round_dict[CHOOSE i \in 1..Len(round_dict) : round_dict[i].id = id].text
    ELSE <<>>

\* responses_by_round[round_num][node_id] = main_text
RoundPut(round_dict, id, text) ==
    IF RoundHas(round_dict, id)
    THEN [i \in 1..Len(round_dict) |->
            IF round_dict[i].id = id THEN [id |-> id, text |-> text] ELSE round_dict[i]]
    ELSE Append(round_dict, [id |-> id, text |-> text])

RECURSIVE NeighborResponsesFrom(_, _, _, _)
NeighborResponsesFrom(prev_round, neighbor_ids, labels, i) ==
    IF i > Len(neighbor_ids) THEN <<>>
    ELSE LET prev_text == RoundGet(prev_round, neighbor_ids[i])
         IN (IF prev_text # <<>>
             THEN <<[label |-> LabelGet(labels, neighbor_ids[i]), text |-> prev_text]>>
             ELSE <<>>)
            \o NeighborResponsesFrom(prev_round, neighbor_ids, labels, i + 1)

\* Lines 337-344: the "<label>: <text>" entries of the incoming neighbors
\* that have a non-empty text in the previous round.
NeighborResponses(prev_round, neighbor_ids, labels) ==
    NeighborResponsesFrom(prev_round, neighbor_ids, labels, 1)

\* build_aggregator_prompt: the transcript lines "Round r - label: text",
\* rounds ascending, each round in the insertion order of its dict.
RECURSIVE TranscriptFrom(_, _, _)
TranscriptFrom(by_round, labels, r) ==
    IF r > Len(by_round) THEN <<>>
    ELSE [i \in 1..Len(by_round[r]) |->
            [round |-> r, label |-> LabelGet(labels, by_round[r][i].id),
             text |-> by_round[r][i].text]]
         \o TranscriptFrom(by_round, labels, r + 1)

\* Mutant of build_aggregator_prompt: the transcript of the last round only.
build_aggregator_prompt_last(by_round, labels) ==
    TranscriptFrom(by_round, labels, Len(by_round))

build_aggregator_prompt(by_round, labels) == TranscriptFrom(by_round, labels, 1)

\* Messages of a history.
SystemMessage(content) == [role |-> "system", content |-> content, source |-> Absent]
UserMessage(content) == [role |-> "user", content |-> content, source |-> "user"]
AssistantMessage(content, source) ==
    [role |-> "assistant", content |-> content, source |-> source]

\* The events run_debate yields; a key an event does not have holds Absent
\* (the empty text for "text").
PositionEvent(from, position, rnd) ==
    [type |-> "position", from |-> from, to |-> Absent, text |-> <<>>,
     summary |-> Absent, position |-> position, round |-> rnd]

MessageEvent(from, to, text, summary, rnd) ==
    [type |-> "message", from |-> from, to |-> to, text |-> text,
     summary |-> summary, position |-> Absent, round |-> rnd]

\* ---------------------------------------------------------------------
\* Spec: run_debate (graph_converter.py 262-417)
\* ---------------------------------------------------------------------
\* The generator is driven by a consumer that keeps asking for the next
\* event. Each action runs the generator from one suspension point (an
\* awaited backend call, a yield) to the next. pc names the suspension:
\*   "start"             not started
\*   "await_create"      line 348, the call for turn (round_num, node_idx)
\*   "at_position"       line 358, the position event has been yielded
\*   "at_message"        line 368 / 380, message msg_idx has been yielded
\*   "await_aggregator"  line 395
\*   "at_aggregator"     line 401, the aggregator event has been yielded
\*   "finally"           lines 412-415, at a close() of the finally block
\*   "returned"          the generator is exhausted
\*   "raised"            the generator has raised `error` to the consumer
\* Inside "finally" the clients still open tell which close() is next.

\* The nodes of a debate: the first n of a, b, c. Node ids are unique
\* (spec section 6). The system prompt of a is missing, that of c blank.
DebateNodes ==
    <<Node("a", "A", Absent), Node("b", "B", "Be bold."), Node("c", "C", " ")>>

\* Edge lists of a debate: none; the chain a -> b -> c; a <-> b by
\* default; b -> a written as b_to_a, against the declaration order; a
\* self-loop on a with a <-> b and a -> c, so that a has several
\* recipients. Edges that name a node outside the node list are dropped.
DebateEdgeLists ==
    {<<>>,
     <<Edge("a", "b", "a_to_b"), Edge("b", "c", "a_to_b")>>,
     <<Edge("a", "b", Absent)>>,
     <<Edge("a", "b", "b_to_a"), Edge("c", "b", "a_to_b")>>,
     <<Edge("a", "a", "a_to_b"), Edge("a", "b", "bidirectional"),
       Edge("c", "a", "b_to_a")>>}

\* config["rounds"]: absent, or an integer.
RoundInputs ==
    {[present |-> FALSE, value |-> 0]}
    \cup {[present |-> TRUE, value |-> v] : v \in (-1)..MaxRounds}

\* rounds = max(1, int(config.get("rounds", 3)))   (line 274)
Rounds == IF config.rounds.present THEN Max(1, config.rounds.value) ELSE DefaultRounds

N == Len(config.nodes)

\* labels = {node["id"]: node["label"] for node in nodes}   (line 305)
Labels == [i \in 1..N |-> LabelPair(config.nodes[i].id, config.nodes[i].label)]

\* outgoing.get(node_id, []) and incoming.get(node_id, [])
OutgoingGet(id) == IF id \in DOMAIN outgoing THEN outgoing[id] ELSE <<>>
IncomingGet(id) == IF id \in DOMAIN incoming THEN incoming[id] ELSE <<>>

\* (node.get("systemPrompt") or "").strip()
CustomPrompt(node) ==
    IF Falsy(node.systemPrompt) THEN "" ELSE StripStr(node.systemPrompt)

\* Replies of the backend to node id in round r. The word of a reply
\* names its turn, so that a text tells which turn produced it.
TurnWord(r, id) == Word("r" \o ToString(r) \o id)

\* A reply with the full envelope: a position and a comment per label.
\* The label of b is written padded and in lower case, the comment for C
\* is a number.
FullReply(r, id) ==
    <<TurnWord(r, id), NL, MARKER, NL>>
    \o Render(JObj(<<Member("position", JStr("pos")),
                     Member("comments",
                            JObj(<<Member("A", JStr("to A")),
                                   Member(" b ", JStr(" ok ")),
                                   Member("C", JNum("5"))>>))>>))

\* A reply that begins with the marker: its main text is empty.
BareReply == <<MARKER, SP>> \o Render(JObj(<<Member("position", JStr(" ok "))>>))

\* A reply whose "comments" member is no object.
OddReply(r, id) ==
    <<TurnWord(r, id), SP, MarkerLower, SP>>
    \o Render(JObj(<<Member("comments", JNum("5"))>>))

Replies(r, id) == {FullReply(r, id), BareReply, OddReply(r, id)}

\* The reply of the aggregator backend.
AggregatorReply == "final summary"

\* A create() call on the client of `callee` (a node id or "aggregator");
\* outcome is "pending" while it is awaited, then "returned" or "raised".
Call(callee) == [callee |-> callee, outcome |-> "pending"]

\* The awaited call ends with `outcome`.
CallEnds(calls, outcome) == [calls EXCEPT ![Len(calls)].outcome = outcome]

InitDebate ==
    /\ config \in [nodes : {SubSeq(DebateNodes, 1, n) : n \in 0..MaxNodes},
                   edges : DebateEdgeLists,
                   rounds : RoundInputs]
    /\ pc = "start"
    /\ round_num = 0
    /\ node_idx = 0
    /\ msg_idx = 0
    /\ model_clients = EmptyDict
    /\ aggregator_client = "none"
    /\ outgoing = EmptyDict
    /\ incoming = EmptyDict
    /\ histories = EmptyDict
    /\ responses_by_round = <<>>
    /\ turn = NoTurn
    /\ aggregator_messages = <<>>
    /\ error = "none"
    /\ exc_class = "none"
    /\ backend_calls = <<>>
    /\ events = <<>>
    /\ MapsIdle
    /\ ParseIdle
    /\ PromptIdle
    /\ EndpointIdle

\* Mutant of HistoryWithPrompt: the follow-up prompt reads the table of
\* the round in progress instead of the previous round.
HistoryWithPromptSameRound(hist, by_round, r, i) ==
    LET node == config.nodes[i]
        new_system_prompt ==
            build_system_prompt(CustomPrompt(node), OutgoingGet(node.id), Labels, r)
        this_round == IF r <= Len(by_round) THEN by_round[r] ELSE <<>>
        prompt ==
            IF r = 1 THEN build_initial_prompt
            ELSE build_followup_prompt(
                    NeighborResponses(this_round, IncomingGet(node.id), Labels))
    IN Append([hist EXCEPT ![1] = SystemMessage(new_system_prompt)],
              UserMessage(prompt))

\* Mutant of HistoryWithPrompt: the system message of the round is
\* appended instead of replacing the first message.
HistoryWithPromptAppended(hist, by_round, r, i) ==
    LET node == config.nodes[i]
        new_system_prompt ==
            build_system_prompt(CustomPrompt(node), OutgoingGet(node.id), Labels, r)
        prompt ==
            IF r = 1 THEN build_initial_prompt
            ELSE build_followup_prompt(
                    NeighborResponses(by_round[r - 1], IncomingGet(node.id), Labels))
    IN IF r = 1 THEN Append([hist EXCEPT ![1] = SystemMessage(new_system_prompt)],
                            UserMessage(prompt))
       ELSE Append(Append(hist, SystemMessage(new_system_prompt)), UserMessage(prompt))

\* Lines 319-347 for turn (r, i): the system message of the node's history
\* is replaced, the user prompt is built and appended.
HistoryWithPrompt(hist, by_round, r, i) ==
    LET node == config.nodes[i]
        new_system_prompt ==
            build_system_prompt(CustomPrompt(node), OutgoingGet(node.id), Labels, r)
        prompt ==
            IF r = 1 THEN build_initial_prompt
            ELSE build_followup_prompt(
                    NeighborResponses(by_round[r - 1], IncomingGet(node.id), Labels))
    IN Append([hist EXCEPT ![1] = SystemMessage(new_system_prompt)],
              UserMessage(prompt))

\* The generator reaches line 348 for turn (r, i) and calls the backend.
\* Line 317 opens the table of a round before its first node.
EnterTurn(hists, r, i) ==
    /\ round_num' = r
    /\ node_idx' = i
    /\ responses_by_round' =
          IF i = 1 THEN Append(responses_by_round, <<>>) ELSE responses_by_round
    /\ histories' =
          [hists EXCEPT ![config.nodes[i].id] =
              HistoryWithPrompt(@, responses_by_round, r, i)]
    /\ backend_calls' = Append(backend_calls, Call(config.nodes[i].id))
    /\ pc' = "await_create"

\* Mutant of StartEmpty: the clients are created before the node list is
\* looked at.
StartEmptyAfterClients ==
    /\ pc = "start"
    /\ config.nodes = <<>>
    /\ aggregator_client' = "open"
    /\ pc' = "returned"
    /\ UNCHANGED <<config, round_num, node_idx, msg_idx, model_clients,
                   outgoing, incoming, histories, responses_by_round, turn,
                   aggregator_messages, error, exc_class, backend_calls, events,
                   mapVars, parseVars, promptVars, wsVars>>

\* First request with an empty node list: lines 282-284 return.
StartEmpty ==
    /\ pc = "start"
    /\ config.nodes = <<>>
    /\ pc' = "returned"
    /\ UNCHANGED <<config, round_num, node_idx, msg_idx, model_clients,
                   aggregator_client, outgoing, incoming, histories,
                   responses_by_round, turn, aggregator_messages, error, exc_class,
                   backend_calls, events, mapVars, parseVars, promptVars, wsVars>>

\* First request: the clients are created (lines 286-302), the neighbor
\* maps and the histories are built (304-312), turn (1, first node) starts.
Start ==
    /\ pc = "start"
    /\ config.nodes # <<>>
    /\ model_clients' = [id \in NodeIdSet(config.nodes) |-> "open"]
    /\ aggregator_client' = "open"
    /\ LET maps == build_neighbor_maps(config.nodes, config.edges)
           seeded == [id \in NodeIdSet(config.nodes) |->
                        LET node == config.nodes[CHOOSE i \in 1..N : config.nodes[i].id = id]
                        IN <<SystemMessage(
                               build_system_prompt(CustomPrompt(node),
                                   maps.outgoing[id], Labels, 1))>>]
       IN /\ outgoing' = maps.outgoing
          /\ incoming' = maps.incoming
          /\ round_num' = 1
          /\ node_idx' = 1
          /\ responses_by_round' = <<<<>>>>
          /\ histories' =
                [seeded EXCEPT ![config.nodes[1].id] =
                    Append(@, UserMessage(build_initial_prompt))]
          /\ backend_calls' = <<Call(config.nodes[1].id)>>
          /\ pc' = "await_create"
    /\ UNCHANGED <<config, msg_idx, turn, aggregator_messages, error, exc_class, events,
                   mapVars, parseVars, promptVars, wsVars>>

\* The node of the current turn.
CurrentNode == config.nodes[node_idx]
CurrentNodeId == IF node_idx \in 1..N THEN CurrentNode.id ELSE Absent

\* The awaited create() of line 348 returns `content`: lines 349-363. The
\* reply joins the history and is parsed; when the parser raises, the
\* exception passes the except clause of line 409 and reaches finally.
CreateReturns(content) ==
    /\ pc = "await_create"
    /\ LET node_id == CurrentNode.id
           recipients == OutgoingGet(node_id)
           parsed == parse_summary_json(content, recipients, Labels, round_num)
       IN /\ histories' =
                [histories EXCEPT ![node_id] =
                    Append(@, AssistantMessage(content, LabelGet(Labels, node_id)))]
          /\ IF parsed.raised
             THEN \* line 353 has assigned recipients before line 354 raises
                  /\ turn' = [turn EXCEPT !.recipients = recipients]
                  /\ error' = "parse"
                  /\ exc_class' = "Exception"
                  /\ pc' = "finally"
                  /\ UNCHANGED <<responses_by_round, events>>
             ELSE /\ responses_by_round' =
                        [responses_by_round EXCEPT ![round_num] =
                            RoundPut(@, node_id, parsed.main_text)]
                  /\ turn' = [main_text |-> parsed.main_text,
                              position |-> parsed.position,
                              comments |-> parsed.comments,
                              recipients |-> recipients]
                  /\ events' = Append(events,
                        PositionEvent(node_id, parsed.position, round_num))
                  /\ pc' = "at_position"
                  /\ UNCHANGED <<error, exc_class>>
    /\ backend_calls' = CallEnds(backend_calls, "returned")
    /\ UNCHANGED <<config, round_num, node_idx, msg_idx, model_clients,
                   aggregator_client, outgoing, incoming, aggregator_messages,
                   mapVars, parseVars, promptVars, wsVars>>

\* The classes of exception a backend call or a close() raises with, as
\* the clauses of run_debate (line 409) and of websocket_endpoint (lines
\* 99, 101, 107) tell them apart: json.JSONDecodeError, WebSocketDisconnect,
\* any other Exception, and a BaseException that is no Exception
\* (asyncio.CancelledError).
ExceptionClasses ==
    {"Exception", "JSONDecodeError", "WebSocketDisconnect", "CancelledError"}

\* The awaited create() of line 348 raises: lines 409-411 log and re-raise
\* an Exception, a BaseException passes them; control reaches finally.
CreateFails ==
    /\ pc = "await_create"
    /\ error' = "backend"
    /\ exc_class' \in ExceptionClasses
    /\ pc' = "finally"
    /\ backend_calls' = CallEnds(backend_calls, "raised")
    /\ UNCHANGED <<config, round_num, node_idx, msg_idx, model_clients,
                   aggregator_client, outgoing, incoming, histories,
                   responses_by_round, turn, aggregator_messages,
                   events, mapVars, parseVars, promptVars, wsVars>>

\* comments.get(to_id, "")
CommentGet(comments, to_id) ==
    IF to_id \in DOMAIN comments THEN comments[to_id] ELSE ""

\* Mutant of TurnMessage: every recipient gets the comment of the first.
TurnMessageFirstComment(k) ==
    MessageEvent(CurrentNode.id, turn.recipients[k], turn.main_text,
                 CommentGet(turn.comments, turn.recipients[1]), round_num)

\* The k-th message event of the current turn (lines 380-387).
TurnMessage(k) ==
    MessageEvent(CurrentNode.id, turn.recipients[k], turn.main_text,
                 CommentGet(turn.comments, turn.recipients[k]), round_num)

\* The consumer asks for the event after the position event: the first
\* message of the turn is yielded (line 368 without recipients, line 380
\* otherwise).
ResumeAfterPosition ==
    /\ pc = "at_position"
    /\ events' = Append(events,
          IF turn.recipients = <<>>
          THEN MessageEvent(CurrentNode.id, "none", turn.main_text, "", round_num)
          ELSE TurnMessage(1))
    /\ msg_idx' = 1
    /\ pc' = "at_message"
    /\ UNCHANGED <<config, round_num, node_idx, model_clients, aggregator_client,
                   outgoing, incoming, histories, responses_by_round, turn,
                   aggregator_messages, error, exc_class, backend_calls, mapVars, parseVars, promptVars, wsVars>>

\* The loop of line 378 has a further recipient.
NextMessage ==
    /\ pc = "at_message"
    /\ msg_idx < Len(turn.recipients)
    /\ events' = Append(events, TurnMessage(msg_idx + 1))
    /\ msg_idx' = msg_idx + 1
    /\ UNCHANGED <<config, pc, round_num, node_idx, model_clients,
                   aggregator_client, outgoing, incoming, histories,
                   responses_by_round, turn, aggregator_messages, error, exc_class,
                   backend_calls, mapVars, parseVars, promptVars, wsVars>>

\* The messages of the turn are out.
TurnDone == pc = "at_message" /\ msg_idx >= Len(turn.recipients)

\* Mutant of LastTurn: the aggregator runs after the first round.
LastTurnFirstRound == node_idx = N

\* The loops of lines 316 and 318 are exhausted.
LastTurn == node_idx = N /\ round_num = Rounds

\* The loops go on with the next node, or the first node of the next round.
NextTurn ==
    /\ TurnDone
    /\ ~LastTurn
    /\ IF node_idx < N
       THEN EnterTurn(histories, round_num, node_idx + 1)
       ELSE EnterTurn(histories, round_num + 1, 1)
    /\ UNCHANGED <<config, msg_idx, model_clients, aggregator_client, outgoing,
                   incoming, turn, aggregator_messages, error, exc_class, events,
                   mapVars, parseVars, promptVars, wsVars>>

\* After the last turn: lines 389-395, the aggregator is called.
Aggregate ==
    /\ TurnDone
    /\ LastTurn
    /\ IF responses_by_round # <<>>
       THEN /\ aggregator_messages' =
                  <<SystemMessage("AGGREGATOR_SYSTEM_PROMPT"),
                    UserMessage(build_aggregator_prompt(responses_by_round, Labels))>>
            /\ backend_calls' = Append(backend_calls, Call("aggregator"))
            /\ pc' = "await_aggregator"
       ELSE /\ pc' = "finally"
            /\ UNCHANGED <<aggregator_messages, backend_calls>>
    /\ UNCHANGED <<config, round_num, node_idx, msg_idx, model_clients,
                   aggregator_client, outgoing, incoming, histories,
                   responses_by_round, turn, error, exc_class, events, mapVars, parseVars, promptVars, wsVars>>

\* The aggregator replies: its event is yielded (lines 396-408).
AggregatorReturns ==
    /\ pc = "await_aggregator"
    /\ events' = Append(events,
          MessageEvent("aggregator", "all", <<>>, AggregatorReply, Rounds))
    /\ pc' = "at_aggregator"
    /\ backend_calls' = CallEnds(backend_calls, "returned")
    /\ UNCHANGED <<config, round_num, node_idx, msg_idx, model_clients,
                   aggregator_client, outgoing, incoming, histories,
                   responses_by_round, turn, aggregator_messages, error, exc_class,
                   mapVars, parseVars, promptVars, wsVars>>

\* The aggregator call raises.
AggregatorFails ==
    /\ pc = "await_aggregator"
    /\ error' = "backend"
    /\ exc_class' \in ExceptionClasses
    /\ pc' = "finally"
    /\ backend_calls' = CallEnds(backend_calls, "raised")
    /\ UNCHANGED <<config, round_num, node_idx, msg_idx, model_clients,
                   aggregator_client, outgoing, incoming, histories,
                   responses_by_round, turn, aggregator_messages,
                   events, mapVars, parseVars, promptVars, wsVars>>

\* The consumer asks for the event after the aggregator event: the try
\* block ends.
ResumeAfterAggregator ==
    /\ pc = "at_aggregator"
    /\ pc' = "finally"
    /\ UNCHANGED <<config, round_num, node_idx, msg_idx, model_clients,
                   aggregator_client, outgoing, incoming, histories,
                   responses_by_round, turn, aggregator_messages, error, exc_class,
                   backend_calls, events, mapVars, parseVars, promptVars, wsVars>>

\* The finally block (lines 412-415) awaits close() once per client, in
\* the order of model_clients, and once more for the aggregator client;
\* each await is a point where the generator is suspended.
AllNodeClientsClosed == \A id \in DOMAIN model_clients : model_clients[id] = "closed"

\* The client the loop of line 413 is at: the first one still open, in the
\* insertion order of model_clients (the order of the node list).
NextToClose ==
    config.nodes[CHOOSE i \in 1..N :
                    /\ model_clients[config.nodes[i].id] = "open"
                    /\ \A j \in 1..(i - 1) :
                          model_clients[config.nodes[j].id] = "closed"].id

\* Line 414: close() of the next node client returns.
CloseClient ==
    /\ pc = "finally"
    /\ ~AllNodeClientsClosed
    /\ model_clients' = [model_clients EXCEPT ![NextToClose] = "closed"]
    /\ UNCHANGED <<config, pc, round_num, node_idx, msg_idx, aggregator_client,
                   outgoing, incoming, histories, responses_by_round, turn,
                   aggregator_messages, error, exc_class, backend_calls, events, mapVars,
                   parseVars, promptVars, wsVars>>

\* Line 415: close() of the aggregator client returns; then the generator
\* ends, or the exception in flight reaches the consumer, or, the
\* exception being the GeneratorExit of aclose(), the generator is closed.
CloseAggregator ==
    /\ pc = "finally"
    /\ AllNodeClientsClosed
    /\ aggregator_client' = "closed"
    /\ pc' = IF error = "none" THEN "returned"
             ELSE IF error = "exit" THEN "closed" ELSE "raised"
    /\ UNCHANGED <<config, round_num, node_idx, msg_idx, model_clients, outgoing,
                   incoming, histories, responses_by_round, turn,
                   aggregator_messages, error, exc_class, backend_calls, events, mapVars,
                   parseVars, promptVars, wsVars>>

\* Lines 414, 415: the close() the block is at raises. The exception
\* leaves the finally block at once, in place of the one in flight: the
\* client it was raised for and every client after it stay open.
CloseRaises ==
    /\ pc = "finally"
    /\ pc' = "raised"
    /\ exc_class' \in ExceptionClasses
    /\ UNCHANGED <<config, round_num, node_idx, msg_idx, model_clients,
                   aggregator_client, outgoing, incoming, histories,
                   responses_by_round, turn, aggregator_messages, error,
                   backend_calls, events, mapVars, parseVars, promptVars, wsVars>>

\* A step of the finally block.
Finally ==
    \/ CloseClient
    \/ CloseAggregator
    \/ CloseRaises

Next ==
    \/ StartEmpty
    \/ Start
    \/ \E content \in Replies(round_num, CurrentNodeId) : CreateReturns(content)
    \/ CreateFails
    \/ ResumeAfterPosition
    \/ NextMessage
    \/ NextTurn
    \/ Aggregate
    \/ AggregatorReturns
    \/ AggregatorFails
    \/ ResumeAfterAggregator
    \/ Finally

Spec == InitDebate /\ [][Next]_vars

\* ---------------------------------------------------------------------
\* Properties of run_debate
\* ---------------------------------------------------------------------
IsTerminal == pc \in {"returned", "raised"}

\* The k-th turn of the schedule: round and node position.
TurnRound(k) == ((k - 1) \div N) + 1
TurnNode(k) == ((k - 1) % N) + 1

\* The reply the backend gave node id in round r: the assistant message
\* of the node's r-th exchange.
ReplyOf(r, id) == histories[id][2 * r + 1].content

\* The message events a turn of node id in round r owes, by its reply.
ExpectedMessages(r, id) ==
    LET out == OutgoingGet(id)
        parsed == parse_summary_json(ReplyOf(r, id), out, Labels, r)
    IN IF out = <<>>
       THEN <<[type |-> "message", from |-> id, to |-> "none",
               text |-> parsed.main_text, summary |-> "", position |-> Absent,
               round |-> r]>>
       ELSE [k \in 1..Len(out) |->
               [type |-> "message", from |-> id, to |-> out[k],
                text |-> parsed.main_text, summary |-> parsed.comments[out[k]],
                position |-> Absent, round |-> r]]

ExpectedTurnEvents(r, id) ==
    <<[type |-> "position", from |-> id, to |-> Absent, text |-> <<>>,
       summary |-> Absent,
       position |-> parse_summary_json(ReplyOf(r, id), OutgoingGet(id), Labels, r).position,
       round |-> r]>>
    \o ExpectedMessages(r, id)

\* The events of the first k turns of the schedule.
RECURSIVE ExpectedEvents(_)
ExpectedEvents(k) ==
    IF k = 0 THEN <<>>
    ELSE ExpectedEvents(k - 1)
         \o ExpectedTurnEvents(TurnRound(k), config.nodes[TurnNode(k)].id)

NotFromAggregator(e) == e.from # "aggregator"

\* The events of the nodes, and the places of the aggregator's events.
DebateEvents == SelectSeq(events, NotFromAggregator)
AggregatorEvents == {j \in 1..Len(events) : events[j].from = "aggregator"}

\* Number of position events among the first j events of ev.
PositionsUpTo(ev, j) == Cardinality({i \in 1..j : ev[i].type = "position"})

\* Every event belongs to the turn of the latest position event, and the
\* k-th position event is that of the k-th turn of the schedule.
GroupedByTurn(ev) ==
    \A j \in 1..Len(ev) :
        LET k == PositionsUpTo(ev, j)
        IN /\ k >= 1
           /\ k <= Rounds * N
           /\ ev[j].round = TurnRound(k)
           /\ ev[j].from = config.nodes[TurnNode(k)].id

\* Every turn of the schedule has its position event, and every position
\* event is directly followed by a message event.
EveryTurnPresent(ev) ==
    /\ PositionsUpTo(ev, Len(ev)) = Rounds * N
    /\ \A j \in 1..Len(ev) :
          ev[j].type = "position" => (j < Len(ev) /\ ev[j + 1].type = "message")

AllCallsReturned ==
    \A k \in 1..Len(backend_calls) : backend_calls[k].outcome = "returned"

\* C1 as stated: when every backend call of a debate over N >= 1 nodes
\* succeeded, the events of the nodes are grouped by turn, rounds 1..R
\* ascending, nodes in declaration order, each turn one position event
\* directly followed by its message events.
C1_AsStated ==
    (IsTerminal /\ N >= 1 /\ AllCallsReturned) =>
        (GroupedByTurn(DebateEvents) /\ EveryTurnPresent(DebateEvents))

\* C1 where no reply makes the parser raise (see C10): the grouping and
\* the completeness of the schedule hold, and at every moment the events
\* emitted so far are grouped by turn.
C1_WhenParserReturns ==
    /\ N >= 1 => GroupedByTurn(DebateEvents)
    /\ (IsTerminal /\ N >= 1 /\ AllCallsReturned /\ error = "none") =>
          EveryTurnPresent(DebateEvents)

\* The message events that directly follow event j.
RECURSIVE RunAfter(_)
RunAfter(j) ==
    IF j < Len(events) /\ events[j + 1].type = "message"
                       /\ events[j + 1].from # "aggregator"
    THEN <<events[j + 1]>> \o RunAfter(j + 1)
    ELSE <<>>

\* The turn whose position event is event j is still yielding messages.
InProgress(j) ==
    /\ \A i \in (j + 1)..Len(events) : events[i].type # "position"
    /\ pc \in {"at_position", "at_message"}
    /\ ~TurnDone

\* C2: the message events of a turn are, in the order of outgoing[node],
\* one per outgoing neighbor with the main text of the reply and the
\* comment parsed for that neighbor, or the single event to "none" with an
\* empty summary when the node has no outgoing neighbor.
C2_FanOut ==
    \A j \in 1..Len(events) :
        events[j].type = "position" =>
            LET id == events[j].from
                run == RunAfter(j)
                owed == ExpectedMessages(events[j].round, id)
            IN /\ Len(run) <= Len(owed)
               /\ run = SubSeq(owed, 1, Len(run))
               /\ ~InProgress(j) => run = owed
               /\ \A a, b \in 1..Len(run) : run[a].to = run[b].to => a = b
               /\ \A a \in 1..Len(run) :
                     IF OutgoingGet(id) = <<>>
                     THEN run[a].to = "none" /\ run[a].summary = ""
                     ELSE run[a].to = OutgoingGet(id)[a]

\* Node a, with the recipients a and b, has sent its round 2 text to both,
\* each with the comment written for it.
C2_Witness ==
    /\ pc = "at_message"
    /\ round_num = 2
    /\ TurnDone
    /\ Len(events) >= 2
    /\ events[Len(events)] =
          MessageEvent("a", "b", <<TurnWord(2, "a")>>, "ok", 2)
    /\ events[Len(events) - 1] =
          MessageEvent("a", "a", <<TurnWord(2, "a")>>, "to A", 2)

\* Every turn of the schedule has yielded all its events.
AllTurnsEmitted ==
    /\ N >= 1
    /\ PositionsUpTo(events, Len(events)) = Rounds * N
    /\ pc # "at_position"
    /\ pc = "at_message" => TurnDone

\* Exactly one aggregator event, the last event of the stream, with the
\* fields of lines 401-408.
AggregatorEventLast ==
    /\ Cardinality(AggregatorEvents) = 1
    /\ events[Len(events)] =
          [type |-> "message", from |-> "aggregator", to |-> "all", text |-> <<>>,
           summary |-> AggregatorReply, position |-> Absent, round |-> Rounds]

\* C3 as stated: when all rounds complete, exactly one aggregator event is
\* emitted, last in the stream.
C3_AsStated ==
    (IsTerminal /\ AllTurnsEmitted) => AggregatorEventLast

\* C3, amended: when all rounds complete and the aggregator call returns,
\* exactly one aggregator event is emitted, last in the stream, from
\* "aggregator" to "all" with empty text, the aggregator reply as summary
\* and round R; when the aggregator call fails it is the last backend
\* call, no aggregator event is emitted, the events are exactly those of
\* the R*N turns and the generator is ending or has ended by raising; and
\* an aggregator event is never in the stream before the last node of the
\* last round has yielded all its events.
C3_Aggregator ==
    /\ (IsTerminal /\ AllTurnsEmitted
          /\ backend_calls[Len(backend_calls)].outcome = "returned")
          => AggregatorEventLast
    /\ \A k \in 1..Len(backend_calls) :
          (backend_calls[k].callee = "aggregator"
              /\ backend_calls[k].outcome = "raised") =>
             /\ k = Len(backend_calls)
             /\ k = Rounds * N + 1
             /\ AggregatorEvents = {}
             /\ events = ExpectedEvents(Rounds * N)
             /\ AllTurnsEmitted
             /\ error = "backend"
             /\ pc \in {"finally", "raised"}
    /\ \A j \in AggregatorEvents :
          /\ j = Len(events)
          /\ AggregatorEventLast
          /\ PositionsUpTo(events, j) = Rounds * N
          /\ LET last == CHOOSE i \in 1..j :
                            /\ events[i].type = "position"
                            /\ \A h \in (i + 1)..j : events[h].type # "position"
             IN /\ events[last].round = Rounds
                /\ events[last].from = config.nodes[N].id
                /\ RunAfter(last) = ExpectedMessages(Rounds, config.nodes[N].id)
                /\ last + Len(RunAfter(last)) + 1 = j

\* A debate of one round over two nodes has ended with the aggregator
\* event.
C3_Witness ==
    /\ pc = "returned"
    /\ Rounds = 1
    /\ N = 2
    /\ Len(events) >= 1
    /\ events[Len(events)].from = "aggregator"

AllClientsClosed ==
    /\ \A id \in DOMAIN model_clients : model_clients[id] = "closed"
    /\ aggregator_client = "closed"

\* A close() of the finally block raised and ended the generator.
CloseRaised == pc = "raised" /\ aggregator_client # "closed"

\* C4 as stated: when the backend call of a turn fails, no further backend
\* call is made (no retry, no later turn, no aggregator), the failure is
\* in flight or has reached the consumer (it is not swallowed), the events
\* emitted are exactly the events of the turns before the failed one, and
\* the failure reaches the consumer only with every client closed.
C4_AbortOnFailure ==
    \A k \in 1..Len(backend_calls) :
        (backend_calls[k].outcome = "raised" /\ backend_calls[k].callee # "aggregator") =>
            /\ k = Len(backend_calls)
            /\ backend_calls[k].callee = config.nodes[TurnNode(k)].id
            /\ error = "backend"
            /\ pc \in {"finally", "raised"}
            /\ events = ExpectedEvents(k - 1)
            /\ pc = "raised" => AllClientsClosed

\* C4 where no close() raises (see C5): the same, the consumer being
\* reached with every client closed unless a close() raised.
C4_WhenClosesReturn ==
    \A k \in 1..Len(backend_calls) :
        (backend_calls[k].outcome = "raised" /\ backend_calls[k].callee # "aggregator") =>
            /\ k = Len(backend_calls)
            /\ backend_calls[k].callee = config.nodes[TurnNode(k)].id
            /\ error = "backend"
            /\ pc \in {"finally", "raised"}
            /\ events = ExpectedEvents(k - 1)
            /\ (pc = "raised" /\ ~CloseRaised) => AllClientsClosed

\* The call of node b in round 2 has failed and the failure has reached
\* the consumer, after the events of three turns.
C4_Witness ==
    /\ pc = "raised"
    /\ error = "backend"
    /\ round_num = 2
    /\ node_idx = 2
    /\ backend_calls[Len(backend_calls)] = [callee |-> "b", outcome |-> "raised"]
    /\ Len(events) >= 6
    /\ AllClientsClosed

\* C5 as stated: in every terminal state of a debate over at least one node, a
\* client was acquired for every node and for the aggregator, and each of
\* them is closed, whether the debate completed, a call of a round failed
\* or the aggregator call failed.
C5_ClientsClosed ==
    (IsTerminal /\ N >= 1) =>
        /\ DOMAIN model_clients = NodeIdSet(config.nodes)
        /\ AllClientsClosed

\* C5 where no close() raises: the generator ends with every client
\* closed; a close() that raises ends it with the client it was called on,
\* every client after it and the aggregator client open.
C5_WhenClosesReturn ==
    /\ (IsTerminal /\ N >= 1) => DOMAIN model_clients = NodeIdSet(config.nodes)
    /\ (IsTerminal /\ N >= 1 /\ ~CloseRaised) => AllClientsClosed
    /\ CloseRaised =>
          \A i \in 1..N : \A j \in i..N :
             model_clients[config.nodes[i].id] = "open" =>
                model_clients[config.nodes[j].id] = "open"

\* The aggregator call has failed and the debate has ended.
C5_Witness ==
    /\ pc = "raised"
    /\ N = 2
    /\ backend_calls[Len(backend_calls)] = [callee |-> "aggregator", outcome |-> "raised"]
    /\ AllClientsClosed

\* C6: with an empty node list the generator returns on its first step
\* without raising, having yielded no event, acquired no client and made
\* no backend call.
C6_EmptyNodeList ==
    (config.nodes = <<>> /\ pc # "idle") =>
        /\ pc \in {"start", "returned"}
        /\ error = "none"
        /\ events = <<>>
        /\ model_clients = EmptyDict
        /\ aggregator_client = "none"
        /\ backend_calls = <<>>

C6_Witness ==
    /\ config.nodes = <<>>
    /\ config.edges # <<>>
    /\ pc = "returned"

\* The main text node m published in round r: the text of its message
\* events of that round.
EmittedText(r, m) ==
    events[CHOOSE j \in 1..Len(events) :
              /\ events[j].type = "message"
              /\ events[j].from = m
              /\ events[j].round = r].text

\* The "<label>: <text>" entries owed to a prompt of round r: one per
\* incoming neighbor with a non-empty text in round r - 1, in list order.
RECURSIVE OwedResponses(_, _, _)
OwedResponses(neighbor_ids, r, i) ==
    IF i > Len(neighbor_ids) THEN <<>>
    ELSE (IF EmittedText(r - 1, neighbor_ids[i]) # <<>>
          THEN <<[label |-> LabelGet(Labels, neighbor_ids[i]),
                  text |-> EmittedText(r - 1, neighbor_ids[i])]>>
          ELSE <<>>)
         \o OwedResponses(neighbor_ids, r, i + 1)

\* C7: the user prompt of node n in round r > 1 references exactly the
\* round r-1 main texts of the nodes of incoming[n] that are non-empty, in
\* the order of incoming[n]; every referenced text was produced in round
\* r-1 by a node of incoming[n]; without such a text the prompt is the
\* "no solutions" one.
C7_RoundToRound ==
    \A id \in DOMAIN histories : \A r \in 1..Rounds :
        Len(histories[id]) >= 2 * r =>
            LET msg == histories[id][2 * r]
                refs == msg.content.neighbor_responses
            IN /\ msg.role = "user"
               /\ r = 1 => msg.content.template = "initial"
               /\ r > 1 =>
                     /\ refs = OwedResponses(IncomingGet(id), r, 1)
                     /\ msg.content.template =
                           IF refs = <<>> THEN "no_solutions" ELSE "solutions"
                     /\ \A a \in 1..Len(refs) :
                           \E m \in Range(IncomingGet(id)) :
                              /\ refs[a].text = <<TurnWord(r - 1, m)>>
                              /\ refs[a].label = LabelGet(Labels, m)

\* The chain a -> b: in round 2 the head a got the "no solutions" prompt
\* and b a prompt with the round 1 text of a.
C7_Witness ==
    /\ DOMAIN histories = {"a", "b"}
    /\ config.edges = <<Edge("a", "b", "a_to_b"), Edge("b", "c", "a_to_b")>>
    /\ Len(histories["a"]) >= 4
    /\ Len(histories["b"]) >= 4
    /\ histories["a"][4].content.template = "no_solutions"
    /\ histories["b"][4].content.neighbor_responses =
          <<[label |-> "A", text |-> <<TurnWord(1, "a")>>]>>

\* The turns node id has started (its backend was called) and completed
\* (the call returned).
TurnsStarted(id) ==
    Cardinality({k \in 1..Len(backend_calls) : backend_calls[k].callee = id})
TurnsCompleted(id) ==
    Cardinality({k \in 1..Len(backend_calls) :
                    /\ backend_calls[k].callee = id
                    /\ backend_calls[k].outcome = "returned"})

NodeOf(id) == config.nodes[CHOOSE i \in 1..N : config.nodes[i].id = id]

\* The history of node id: one system message, first, that of the last
\* round the node started; then a user and an assistant message per
\* completed turn, in round order, the assistant message being the reply
\* of this node's backend for that round under this node's label; then
\* the user message of a turn that was started and has not completed.
HistoryShape(id) ==
    LET h == histories[id]
        started == TurnsStarted(id)
        completed == TurnsCompleted(id)
    IN /\ Len(h) = 1 + started + completed
       /\ started \in {completed, completed + 1}
       /\ h[1] = SystemMessage(build_system_prompt(CustomPrompt(NodeOf(id)),
                                                   OutgoingGet(id), Labels,
                                                   Max(1, started)))
       /\ h[1].content.instructions =
             IF started <= 1 THEN "position"
             ELSE IF OutgoingGet(id) = <<>> THEN "none" ELSE "comments"
       /\ \A j \in 2..Len(h) : h[j].role # "system"
       /\ \A r \in 1..started :
             /\ h[2 * r].role = "user"
             /\ (h[2 * r].content.template = "initial") <=> (r = 1)
       /\ \A r \in 1..completed :
             /\ h[2 * r + 1].role = "assistant"
             /\ h[2 * r + 1].source = LabelGet(Labels, id)
             /\ h[2 * r + 1].content \in Replies(r, id)

\* Between two states the messages after the system message stay where
\* they are, unchanged, in every history.
HistoryAppendOnly ==
    \A id \in (DOMAIN histories) \cap (DOMAIN histories') :
        /\ Len(histories'[id]) >= Len(histories[id])
        /\ \A j \in 2..Len(histories[id]) : histories'[id][j] = histories[id][j]

\* C16: every node's history keeps the shape HistoryShape at every point
\* of a debate (one system message, at the front, of the last round the
\* node started; then the exchanges of its own turns in round order), and
\* no step modifies, moves or removes a message other than the system
\* message.
C16_History ==
    /\ [](\A id \in DOMAIN histories : HistoryShape(id))
    /\ [][HistoryAppendOnly]_vars

\* Node a has completed two turns: its history holds the round 2 system
\* prompt and two exchanges, the replies of rounds 1 and 2 in this order.
C16_Witness ==
    /\ DOMAIN histories = {"a", "b"}
    /\ Len(histories["a"]) = 5
    /\ histories["a"][1].content.instructions = "comments"
    /\ histories["a"][3].content = FullReply(1, "a")
    /\ histories["a"][5].content = FullReply(2, "a")
    /\ Len(histories["b"]) = 3

\* The backend calls of a complete debate: every turn of the schedule in
\* order, one call each, then the aggregator, all returned.
FullSchedule ==
    [k \in 1..(Rounds * N + 1) |->
        [callee |-> IF k <= Rounds * N THEN config.nodes[TurnNode(k)].id
                    ELSE "aggregator",
         outcome |-> "returned"]]

\* The round count the configuration asks for (line 274).
ConfiguredRounds ==
    IF ~config.rounds.present THEN 3
    ELSE IF config.rounds.value <= 0 THEN 1
    ELSE config.rounds.value

\* C17 as stated: a debate over N >= 1 nodes in which every backend call
\* returned ends after the R * N calls of the schedule (every node once per
\* round) and one aggregator call, R being max(1, rounds), or 3 without a
\* rounds key.
C17_AsStated ==
    (IsTerminal /\ N >= 1 /\ AllCallsReturned) =>
        /\ pc = "returned"
        /\ backend_calls = FullSchedule
        /\ Rounds = ConfiguredRounds

\* The same for the debates in which the parser returned on every reply;
\* the generator then returns unless a close() raised.
C17_WhenParserReturns ==
    (IsTerminal /\ N >= 1 /\ AllCallsReturned /\ error # "parse") =>
        /\ pc = "returned" \/ CloseRaised
        /\ backend_calls = FullSchedule
        /\ Rounds = ConfiguredRounds

\* The table of round r holds, in declaration order, the main text of the
\* first n nodes, each the text the node's message events carried.
RoundHolds(r, n) ==
    /\ Len(responses_by_round[r]) = n
    /\ \A i \in 1..n :
          /\ responses_by_round[r][i].id = config.nodes[i].id
          /\ responses_by_round[r][i].text = EmittedText(r, config.nodes[i].id)

\* The transcript lines owed after R rounds: one triple per turn of the
\* schedule, in schedule order.
FullTranscript ==
    [k \in 1..(Rounds * N) |->
        [round |-> TurnRound(k),
         label |-> LabelGet(Labels, config.nodes[TurnNode(k)].id),
         text |-> EmittedText(TurnRound(k), config.nodes[TurnNode(k)].id)]]

\* Once the aggregator has been invoked the table holds one main text per
\* (round, node) pair of the R rounds and the transcript lists them all.
TableAtAggregation ==
    aggregator_messages # <<>> =>
        /\ Len(responses_by_round) = Rounds
        /\ \A r \in 1..Rounds : RoundHolds(r, N)
        /\ aggregator_messages[2].role = "user"
        /\ aggregator_messages[2].content = FullTranscript

\* A step keeps every entry of the table in its place with its text.
TableAppendOnly ==
    /\ Len(responses_by_round') >= Len(responses_by_round)
    /\ \A r \in 1..Len(responses_by_round) :
          /\ Len(responses_by_round'[r]) >= Len(responses_by_round[r])
          /\ \A i \in 1..Len(responses_by_round[r]) :
                responses_by_round'[r][i] = responses_by_round[r][i]

\* C18: the response table retains every round: no step overwrites or
\* drops an entry, and when the aggregator is invoked the table holds
\* exactly one main text per (round, node) pair and the transcript lists
\* the R * N triples by ascending round and, within a round, in
\* declaration order.
C18_TableRetained ==
    /\ []TableAtAggregation
    /\ [][TableAppendOnly]_vars

\* The aggregator was invoked after two rounds over two nodes with a
\* transcript of four lines, the round 1 lines first.
C18_Witness ==
    /\ pc = "await_aggregator"
    /\ Rounds = 2
    /\ N = 2
    /\ Len(aggregator_messages) = 2
    /\ Len(aggregator_messages[2].content) = 4
    /\ aggregator_messages[2].content[1] =
          [round |-> 1, label |-> "A", text |-> <<TurnWord(1, "a")>>]
    /\ aggregator_messages[2].content[4] =
          [round |-> 2, label |-> "B", text |-> <<TurnWord(2, "b")>>]

\* ---------------------------------------------------------------------
\* SpecEndpoint: websocket_endpoint (main.py 40-112) driving run_debate
\* ---------------------------------------------------------------------
\* The endpoint is the consumer of the generator. ws_pc tells where it is
\* suspended:
\*   "receive"   in receive_text (line 61)
\*   "reject"    in the send_json of a validation error (lines 67, 74)
\*   "anext"     in the `async for` of line 81, waiting for the next event
\*   "relay"     in the send_json of an event (lines 85, 88)
\*   "complete"  in the send_json of line 96
\*   "handler"   in the send_json of an except clause (lines 103, 109)
\*   "done"      the endpoint has returned
\*   "crashed"   an exception has left the endpoint
\* The sleep of line 93 is part of the step that ends the relay.
\*
\* What send_json does once the client is gone is decided by the server
\* library, which is not part of the repository: the call may return (the
\* record is dropped), raise WebSocketDisconnect or raise another
\* exception. The three outcomes are all possible here.
\*
\* A generator the endpoint has left suspended at a yield is closed by the
\* event loop (the asynchronous generator finalizer calls aclose(), which
\* raises GeneratorExit at the yield).

ApiKeys == {Absent, "", "sk-test"}

\* The requests: text that is no JSON, and configurations with the nodes
\* key missing or a node list of 0..MaxNodes nodes, with every edge list
\* and rounds value of a debate and the apiKey missing, empty or given.
EndpointRequests ==
    {NoRequest}
    \cup {[json_ok |-> TRUE, config |-> c] :
            c \in [has_nodes : {TRUE},
                   nodes : {SubSeq(DebateNodes, 1, n) : n \in 0..MaxNodes},
                   edges : DebateEdgeLists,
                   rounds : RoundInputs,
                   apiKey : ApiKeys]}
    \cup {[json_ok |-> TRUE, config |-> c] :
            c \in [has_nodes : {FALSE}, nodes : {<<>>}, edges : {<<>>},
                   rounds : RoundInputs, apiKey : ApiKeys]}

\* The records of the wire.
ErrorRecord(message) == [type |-> "error", error |-> message, data |-> NoEvent]
CompleteRecord == [type |-> "complete", error |-> Absent, data |-> NoEvent]

\* Lines 82-91: a position event is sent as it is, any other event inside
\* a record of type "message".
WireRecord(message) ==
    IF message.type = "position"
    THEN [type |-> "position", error |-> Absent, data |-> message]
    ELSE [type |-> "message", error |-> Absent, data |-> message]

\* Line 66: `not config.get("nodes") or len(config["nodes"]) < 2`
TooFewNodes(c) == ~c.has_nodes \/ c.nodes = <<>> \/ Len(c.nodes) < 2

InitEndpoint ==
    /\ ws_request \in EndpointRequests
    /\ ws_pc = "receive"
    /\ ws_open = TRUE
    /\ ws_taken = 0
    /\ ws_out = NoRecord
    /\ ws_sent = <<>>
    /\ DebateIdle
    /\ MapsIdle
    /\ ParseIdle
    /\ PromptIdle

restOfDebate == <<round_num, node_idx, msg_idx, model_clients, aggregator_client,
                  outgoing, incoming, histories, responses_by_round, turn,
                  aggregator_messages, error, exc_class, backend_calls, events>>

\* Lines 61-81 after the request has arrived, for the endpoint variables
\* and the generator: `checked` tells whether line 73 looks at the apiKey.
ReceiveWith(checked) ==
    /\ ws_pc = "receive"
    /\ LET c == ws_request.config
       IN IF ~ws_open
          THEN \* receive_text raises WebSocketDisconnect (line 99)
               /\ ws_pc' = "done"
               /\ UNCHANGED <<ws_out, config, pc>>
          ELSE IF ~ws_request.json_ok
          THEN \* json.loads raises JSONDecodeError (line 101)
               /\ ws_pc' = "handler"
               /\ ws_out' = ErrorRecord("Invalid JSON format")
               /\ UNCHANGED <<config, pc>>
          ELSE IF TooFewNodes(c)
          THEN /\ ws_pc' = "reject"
               /\ ws_out' = ErrorRecord("At least 2 agents are required")
               /\ UNCHANGED <<config, pc>>
          ELSE IF checked /\ Falsy(c.apiKey)
          THEN /\ ws_pc' = "reject"
               /\ ws_out' = ErrorRecord("API key is required")
               /\ UNCHANGED <<config, pc>>
          ELSE \* run_debate(config) makes the generator; line 81 asks it
               \* for its first event
               /\ config' = [nodes |-> c.nodes, edges |-> c.edges, rounds |-> c.rounds]
               /\ pc' = "start"
               /\ ws_pc' = "anext"
               /\ UNCHANGED ws_out
    /\ UNCHANGED <<ws_request, ws_open, ws_taken, ws_sent, restOfDebate,
                   mapVars, parseVars, promptVars>>

\* Mutant of Receive: the apiKey is not looked at.
ReceiveNoKeyCheck == ReceiveWith(FALSE)

\* The request arrives and is validated (lines 61-81).
Receive == ReceiveWith(TRUE)

\* The `async for` receives the event the generator has yielded.
Take ==
    /\ ws_pc = "anext"
    /\ ws_taken < Len(events)
    /\ ws_taken' = ws_taken + 1
    /\ ws_out' = WireRecord(events[ws_taken + 1])
    /\ ws_pc' = "relay"
    /\ UNCHANGED <<ws_request, ws_open, ws_sent, debateVars, mapVars, parseVars,
                   promptVars>>

\* The generator is exhausted: the loop ends, line 96 sends "complete".
Exhausted ==
    /\ ws_pc = "anext"
    /\ pc = "returned"
    /\ ws_taken = Len(events)
    /\ ws_out' = CompleteRecord
    /\ ws_pc' = "complete"
    /\ UNCHANGED <<ws_request, ws_open, ws_taken, ws_sent, debateVars, mapVars,
                   parseVars, promptVars>>

\* str(e) of the exception that left the generator: the one of a close()
\* of the finally block when one raised (the aggregator client is then
\* still open), otherwise the one that was in flight.
RaisedError == IF aggregator_client = "closed" THEN error ELSE "close"

\* Mutant of Raised: the exception of the generator ends the loop like
\* its exhaustion.
RaisedThenComplete ==
    /\ ws_pc = "anext"
    /\ pc = "raised"
    /\ ws_taken = Len(events)
    /\ ws_out' = CompleteRecord
    /\ ws_pc' = "complete"
    /\ UNCHANGED <<ws_request, ws_open, ws_taken, ws_sent, debateVars, mapVars,
                   parseVars, promptVars>>

\* The generator raises at line 81. A WebSocketDisconnect is logged by
\* the clause of line 99 and the endpoint returns; a json.JSONDecodeError
\* gets the record of line 103; any other Exception str(e) through line
\* 107; a BaseException that is no Exception matches no clause and leaves
\* the endpoint.
Raised ==
    /\ ws_pc = "anext"
    /\ pc = "raised"
    /\ ws_taken = Len(events)
    /\ IF exc_class = "WebSocketDisconnect"
       THEN ws_pc' = "done" /\ ws_out' = NoRecord
       ELSE IF exc_class = "JSONDecodeError"
       THEN ws_pc' = "handler" /\ ws_out' = ErrorRecord("Invalid JSON format")
       ELSE IF exc_class = "Exception"
       THEN ws_pc' = "handler" /\ ws_out' = ErrorRecord(RaisedError)
       ELSE ws_pc' = "crashed" /\ ws_out' = NoRecord
    /\ UNCHANGED <<ws_request, ws_open, ws_taken, ws_sent, debateVars, mapVars,
                   parseVars, promptVars>>

InSend == ws_pc \in {"reject", "relay", "complete", "handler"}

\* send_json returns: after an event the loop sleeps and asks for the next
\* event; after any other record the endpoint returns.
SendReturns ==
    /\ InSend
    /\ ws_sent' = Append(ws_sent, ws_out)
    /\ ws_out' = NoRecord
    /\ ws_pc' = IF ws_pc = "relay" THEN "anext" ELSE "done"
    /\ UNCHANGED <<ws_request, ws_open, ws_taken, debateVars, mapVars, parseVars,
                   promptVars>>

\* send_json raises WebSocketDisconnect: the clause of line 99 logs it and
\* the endpoint returns; raised inside an except clause it leaves the
\* endpoint.
SendRaisesDisconnect ==
    /\ InSend
    /\ ~ws_open
    /\ ws_out' = NoRecord
    /\ ws_pc' = IF ws_pc = "handler" THEN "crashed" ELSE "done"
    /\ UNCHANGED <<ws_request, ws_open, ws_taken, ws_sent, debateVars, mapVars,
                   parseVars, promptVars>>

\* send_json raises another exception: the clause of line 107 sends
\* str(e); raised inside an except clause it leaves the endpoint.
SendRaises ==
    /\ InSend
    /\ ~ws_open
    /\ IF ws_pc = "handler"
       THEN ws_pc' = "crashed" /\ ws_out' = NoRecord
       ELSE ws_pc' = "handler" /\ ws_out' = ErrorRecord("send")
    /\ UNCHANGED <<ws_request, ws_open, ws_taken, ws_sent, debateVars, mapVars,
                   parseVars, promptVars>>

\* The client goes away.
Disconnect ==
    /\ ws_open
    /\ ws_pc \notin {"idle", "done", "crashed"}
    /\ ws_open' = FALSE
    /\ UNCHANGED <<ws_request, ws_pc, ws_taken, ws_out, ws_sent, debateVars,
                   mapVars, parseVars, promptVars>>

AtYield == pc \in {"at_position", "at_message", "at_aggregator"}

\* The endpoint has left the loop of line 81 with the generator suspended
\* at a yield.
LeftLoop == ws_pc \in {"handler", "done", "crashed"}

\* aclose() on the abandoned generator: GeneratorExit is raised at the
\* yield (lines 358, 368, 380, 401), passes the clause of line 409, which
\* catches Exception only, and enters the finally block.
GeneratorClose ==
    /\ AtYield
    /\ LeftLoop
    /\ error' = "exit"
    /\ exc_class' = "GeneratorExit"
    /\ pc' = "finally"
    /\ UNCHANGED <<config, round_num, node_idx, msg_idx, model_clients,
                   aggregator_client, outgoing, incoming, histories,
                   responses_by_round, turn, aggregator_messages, backend_calls,
                   events, mapVars, parseVars, promptVars, wsVars>>

\* Mutant of Consumed: the generator runs on while the endpoint is still
\* relaying.
ConsumedEager == ws_pc \in {"anext", "relay"}

\* The generator body runs only inside a request for its next event: the
\* endpoint is in the `async for` and has received everything yielded.
Consumed == ws_pc = "anext" /\ ws_taken = Len(events)

NextEndpoint ==
    \/ Receive
    \/ Take
    \/ Exhausted
    \/ Raised
    \/ SendReturns
    \/ SendRaisesDisconnect
    \/ SendRaises
    \/ Disconnect
    \/ GeneratorClose
    \/ Consumed /\ Start
    \/ Consumed /\ \E content \in Replies(round_num, CurrentNodeId) : CreateReturns(content)
    \/ Consumed /\ CreateFails
    \/ Consumed /\ ResumeAfterPosition
    \/ Consumed /\ NextMessage
    \/ Consumed /\ NextTurn
    \/ Consumed /\ Aggregate
    \/ Consumed /\ AggregatorReturns
    \/ Consumed /\ AggregatorFails
    \/ Consumed /\ ResumeAfterAggregator
    \/ (Consumed \/ error = "exit") /\ Finally

SpecEndpoint == InitEndpoint /\ [][NextEndpoint]_vars

\* The event loop runs the finalizer of an abandoned generator, and the
\* finally block, once entered, goes on until it is left.
FairSpecEndpoint ==
    SpecEndpoint /\ WF_vars(GeneratorClose) /\ WF_vars(Finally)

\* ---------------------------------------------------------------------
\* Properties of websocket_endpoint
\* ---------------------------------------------------------------------
IsFinal(record) == record.type \in {"complete", "error"}

\* The request is a configuration with fewer than 2 nodes or without an
\* apiKey.
Rejectable ==
    /\ ws_request.json_ok
    /\ TooFewNodes(ws_request.config) \/ Falsy(ws_request.config.apiKey)

\* C12: for a configuration with fewer than 2 nodes or without apiKey the
\* generator is never made (so no client is created, no backend call made,
\* no event produced or relayed), "complete" is never sent, at most one
\* record is sent and it is an error record; a client that is still
\* connected when the endpoint returns has got exactly the one error record
\* of the validation.
C12_Rejected ==
    Rejectable =>
        /\ pc = "idle"
        /\ model_clients = EmptyDict
        /\ aggregator_client = "none"
        /\ backend_calls = <<>>
        /\ events = <<>>
        /\ ws_pc \in {"receive", "reject", "handler", "done", "crashed"}
        /\ Len(ws_sent) <= 1
        /\ \A i \in 1..Len(ws_sent) : ws_sent[i].type = "error"
        /\ (ws_pc = "done" /\ ws_open) =>
              ws_sent = <<ErrorRecord(IF TooFewNodes(ws_request.config)
                                      THEN "At least 2 agents are required"
                                      ELSE "API key is required")>>

\* Two nodes and an empty apiKey: the endpoint has returned after the one
\* error record.
C12_Witness ==
    /\ ws_request.json_ok
    /\ Len(ws_request.config.nodes) = 2
    /\ ws_request.config.apiKey = ""
    /\ ws_pc = "done"
    /\ ws_open
    /\ ws_sent = <<ErrorRecord("API key is required")>>
    /\ pc = "idle"

\* The events among the records sent, in the order sent.
RECURSIVE RelayedFrom(_, _)
RelayedFrom(sent, i) ==
    IF i > Len(sent) THEN <<>>
    ELSE (IF IsFinal(sent[i]) THEN <<>> ELSE <<sent[i].data>>)
         \o RelayedFrom(sent, i + 1)

Relayed == RelayedFrom(ws_sent, 1)

\* The records sent are events in their wire form, a prefix of the events
\* the scheduler produced, and a terminal record is the last record sent.
RelayInOrder ==
    /\ Len(Relayed) <= Len(events)
    /\ Relayed = SubSeq(events, 1, Len(Relayed))
    /\ \A i \in 1..Len(ws_sent) :
          /\ IsFinal(ws_sent[i]) => i = Len(ws_sent)
          /\ ~IsFinal(ws_sent[i]) => ws_sent[i] = WireRecord(ws_sent[i].data)

\* C13 as stated: the records sent are the events of the scheduler in the
\* order it produced them, followed by at most one terminal record, after
\* which nothing is sent; when the endpoint has ended with the client
\* still connected, every event produced was relayed and the last record
\* is the one terminal record: "complete" when the generator was
\* exhausted, "error" when it raised or was never made.
C13_AsStated ==
    /\ RelayInOrder
    /\ ws_open =>
          /\ ws_pc # "crashed"
          /\ Len(Relayed) \in {ws_taken, ws_taken - 1}
          /\ ws_pc = "done" =>
                /\ ws_sent # <<>>
                /\ IsFinal(ws_sent[Len(ws_sent)])
                /\ Relayed = events
                /\ (ws_sent[Len(ws_sent)].type = "complete") <=> (pc = "returned")
                /\ pc \in {"returned", "raised", "idle"}

\* The generator raised an exception for which the endpoint has a clause
\* that sends an error record.
RaisedReported == pc = "raised" /\ exc_class \in {"Exception", "JSONDecodeError"}

\* C13, amended: the same, where "error" follows when the generator raised
\* an Exception other than WebSocketDisconnect (the literal of line 103
\* for a json.JSONDecodeError, str(e) otherwise) or was never made; when
\* it raised WebSocketDisconnect the endpoint returns, and when it raised
\* a BaseException that is no Exception the exception leaves the endpoint,
\* in both cases with every event relayed and no terminal record.
C13_RelayThenTerminal ==
    /\ RelayInOrder
    /\ ws_open =>
          /\ Len(Relayed) \in {ws_taken, ws_taken - 1}
          /\ ws_pc = "crashed" => (pc = "raised" /\ exc_class = "CancelledError")
          /\ ws_pc \in {"done", "crashed"} =>
                /\ Relayed = events
                /\ pc \in {"returned", "raised", "idle"}
                /\ pc = "returned" =>
                      ws_sent = [i \in 1..Len(events) |-> WireRecord(events[i])]
                                   \o <<CompleteRecord>>
                /\ pc = "idle" =>
                      /\ Len(ws_sent) = 1
                      /\ ws_sent[1].type = "error"
                /\ RaisedReported =>
                      ws_sent = [i \in 1..Len(events) |-> WireRecord(events[i])]
                                   \o <<ErrorRecord(IF exc_class = "JSONDecodeError"
                                                    THEN "Invalid JSON format"
                                                    ELSE RaisedError)>>
                /\ (pc = "raised" /\ ~RaisedReported) =>
                      /\ ws_sent = [i \in 1..Len(events) |-> WireRecord(events[i])]
                      /\ (ws_pc = "crashed") <=> (exc_class = "CancelledError")
                      /\ (ws_pc = "done") <=> (exc_class = "WebSocketDisconnect")

\* A debate ended with the error of a failed backend call of round 2: the
\* client got the events of round 1 and then the one error record.
C13_Witness ==
    /\ ws_open
    /\ ws_pc = "done"
    /\ pc = "raised"
    /\ error = "backend"
    /\ round_num = 2
    /\ Len(ws_sent) = Len(events) + 1
    /\ Len(events) >= 4
    /\ ws_sent[1].type = "position"
    /\ ws_sent[2].type = "message"
    /\ ws_sent[Len(ws_sent)] = ErrorRecord("backend")

\* The same for a debate that completed.
C13_WitnessComplete ==
    /\ ws_open
    /\ ws_pc = "done"
    /\ pc = "returned"
    /\ Len(ws_sent) = Len(events) + 1
    /\ ws_sent[Len(events)].data.from = "aggregator"
    /\ ws_sent[Len(ws_sent)] = CompleteRecord

\* The backend calls in flight.
PendingCalls ==
    {k \in 1..Len(backend_calls) : backend_calls[k].outcome = "pending"}

\* C19: at most one backend call is in flight; at most the one event just
\* yielded has not been received by the consumer; and while the call of a
\* turn (or of the aggregator) is in flight the events produced are exactly
\* those of all preceding turns, the consumer has received every one of
\* them and each has been through send_json, in order.
C19_DemandDriven ==
    /\ Cardinality(PendingCalls) <= 1
    /\ Len(events) - ws_taken \in {0, 1}
    /\ \A k \in PendingCalls :
          /\ k = Len(backend_calls)
          /\ pc \in {"await_create", "await_aggregator"}
          /\ ws_pc = "anext"
          /\ ws_taken = Len(events)
          /\ Relayed = events
          /\ events = ExpectedEvents(k - 1)
          /\ backend_calls[k].callee =
                IF k <= Rounds * N THEN config.nodes[TurnNode(k)].id ELSE "aggregator"

\* The call of turn (1, b) is in flight and the client has the two events
\* of turn (1, a).
C19_Witness ==
    /\ pc = "await_create"
    /\ round_num = 1
    /\ node_idx = 2
    /\ backend_calls = <<[callee |-> "a", outcome |-> "returned"],
                         [callee |-> "b", outcome |-> "pending"]>>
    /\ ws_open
    /\ Len(events) = 2
    /\ ws_sent = <<WireRecord(events[1]), WireRecord(events[2])>>
    /\ events[2].from = "a"

\* The consumer has stopped before the stream was exhausted: a send of the
\* relay failed and the endpoint left its loop with the generator
\* suspended at a yield, or being closed from there.
Abandoned ==
    /\ LeftLoop
    /\ AtYield \/ error = "exit"

\* C20 as stated: once the consumer has stopped before the end of the stream no
\* further backend call is made and no further event produced, and the
\* generator gets closed with every per-node client and the aggregator
\* client released.
C20_ConsumerStops ==
    /\ [][Abandoned => (backend_calls' = backend_calls /\ events' = events)]_vars
    /\ [](Abandoned => PendingCalls = {})
    /\ Abandoned ~> (pc = "closed" /\ DOMAIN model_clients = NodeIdSet(config.nodes)
                                   /\ AllClientsClosed)

\* C20 where no close() raises (see C5): the same, the generator getting
\* closed with every client released unless a close() raises.
C20_WhenClosesReturn ==
    /\ [][Abandoned => (backend_calls' = backend_calls /\ events' = events)]_vars
    /\ [](Abandoned => PendingCalls = {})
    /\ Abandoned ~> \/ (pc = "closed" /\ DOMAIN model_clients = NodeIdSet(config.nodes)
                                      /\ AllClientsClosed)
                    \/ CloseRaised

\* The client left during round 1, the relay of the position of node b
\* failed, and the generator was closed with its three clients released
\* after two backend calls.
C20_Witness ==
    /\ ~ws_open
    /\ ws_pc = "done"
    /\ pc = "closed"
    /\ error = "exit"
    /\ Len(backend_calls) = 2
    /\ Len(events) = 3
    /\ Len(ws_sent) = 2
    /\ Rounds >= 2
    /\ model_clients = [id \in {"a", "b"} |-> "closed"]
    /\ aggregator_client = "closed"

\* ---------------------------------------------------------------------
\* SpecTopology: build_neighbor_maps on its own, edge by edge, together
\* with run_debate, which calls it on the configured graph (line 304)
\* ---------------------------------------------------------------------
InitTopology == InitMaps \/ InitDebate

NextTopology ==
    \/ pc = "idle" /\ NextMaps
    \/ Next

SpecTopology == InitTopology /\ [][NextTopology]_vars

\* y is in out[x] if and only if x is in inc[y], for all keys x, y.
Dual(out, inc) ==
    /\ DOMAIN out = DOMAIN inc
    /\ \A x \in DOMAIN out : \A y \in DOMAIN out :
          InList(y, out[x]) <=> InList(x, inc[y])

\* Node m completed its turn of round r: its message events are out.
Published(m, r) ==
    \E j \in 1..Len(events) :
        /\ events[j].type = "message"
        /\ events[j].from = m
        /\ events[j].round = r

\* Node n is a recipient of the message events of node m in round r.
Recipient(m, n, r) ==
    \E j \in 1..Len(events) :
        /\ events[j].type = "message"
        /\ events[j].from = m
        /\ events[j].round = r
        /\ events[j].to = n

\* The prompt of node n for round r carries the entry "<label of m>:
\* <main text of m in round r - 1>".
ShownTo(m, n, r) ==
    /\ Published(m, r - 1)
    /\ \E a \in 1..Len(histories[n][2 * r].content.neighbor_responses) :
          histories[n][2 * r].content.neighbor_responses[a] =
             [label |-> LabelGet(Labels, m), text |-> EmittedText(r - 1, m)]

\* The turns (n, r), r > 1, whose prompt has been built.
PromptBuilt(n, r) ==
    /\ n \in DOMAIN histories
    /\ r \in 2..Rounds
    /\ Len(histories[n]) >= 2 * r

\* C21 as stated: the two mappings are dual after every prefix of the
\* edge list, and the round r-1 text of node m is shown to node n in round
\* r exactly when n is a recipient of the message events of m.
C21_AsStated ==
    /\ Dual(bn_outgoing, bn_incoming)
    /\ Dual(outgoing, incoming)
    /\ \A n \in DOMAIN histories : \A m \in DOMAIN histories :
          \A r \in 2..Rounds :
             PromptBuilt(n, r) => (ShownTo(m, n, r) <=> Recipient(m, n, r - 1))

\* C21: after build_neighbor_maps has processed any prefix of the edge
\* list, y is in outgoing[x] if and only if x is in incoming[y]; the maps
\* run_debate works with are dual as well, and the prompt of node n for
\* round r shows the round r-1 main text of node m exactly when n is a
\* recipient of the round r-1 message events of m and that text is not
\* empty.
C21_Duality ==
    /\ Dual(bn_outgoing, bn_incoming)
    /\ Dual(outgoing, incoming)
    /\ \A n \in DOMAIN histories : \A m \in DOMAIN histories :
          \A r \in 2..Rounds :
             PromptBuilt(n, r) =>
                (ShownTo(m, n, r) <=>
                    /\ Recipient(m, n, r - 1)
                    /\ EmittedText(r - 1, m) # <<>>)

\* The graph with the one-way edges b -> a and c -> b: the round 1 text of
\* b went to a alone and the round 2 prompt of a shows it, while b was
\* shown nothing; a is in outgoing[b] and b in incoming[a].
C21_Witness ==
    /\ DOMAIN histories = {"a", "b"}
    /\ outgoing = [a |-> <<>>, b |-> <<"a">>]
    /\ incoming = [a |-> <<"b">>, b |-> <<>>]
    /\ PromptBuilt("a", 2)
    /\ PromptBuilt("b", 2)
    /\ ShownTo("b", "a", 2)
    /\ Recipient("b", "a", 1)
    /\ ~ShownTo("a", "b", 2)
    /\ ~Recipient("a", "b", 1)

====
